---- MODULE Spec2Model ----
(***************************************************************************)
(* A model of the short-interpretter pipeline: ReadTokens (Lexer.cpp),     *)
(* ReadModule (Parser.cpp), ByteCodeEmitter and ByteCodeEvaluator          *)
(* (Interpret.h, Interpret.cpp) and the Compiler driver (lang.cpp).        *)
(*                                                                         *)
(* Source text is a sequence of one-character strings.  A token's chars    *)
(* are such a sequence too.  AST nodes are records; they carry no source   *)
(* location because Node::equals ignores it.  A ByteCode slot is a union   *)
(* of an Instruction and an int64 whose operator== compares the value, so  *)
(* a slot is modelled as one integer.                                      *)
(***************************************************************************)
EXTENDS Integers, Sequences, FiniteSets, TLC

VARIABLES
  pc,            \* the process: "start" (a call is pending), "idle", "returned" (the last call
                 \* returned), "aborted" (an assertion failed, lang_unreachable ran or an
                 \* exception escaped), "hung" (a loop never ends), "crashed" (an undefined read faulted)
  input,         \* the source text handed to ReadTokens / Compiler::Lex
  tokens_,       \* Compiler::tokens_, the vector ReadTokens appends to and ReadModule reads
  lex_status,    \* the LexStatus of the last ReadTokens
  module_ptr_,   \* Compiler::module_ptr_, the Module of the last ReadModule, or Null
  parse_status,  \* the ParseStatus of the last ReadModule
  byte_code_,    \* ByteCodeEmitter::byte_code_
  constants_,    \* ByteCodeEmitter::constants_
  symbols_,      \* ByteCodeEmitter::symbols_, name -> id
  lowered,       \* history: the nodes handed to ConvertToByteCode since the emitter was last reset
  eval_stack_,   \* ByteCodeEvaluator::eval_stack_
  eval_consts_,  \* ByteCodeEvaluator::constants_
  symbol_table_, \* ByteCodeEvaluator::symbol_table_, id -> value
  result,        \* <<the value ResetAndCompile returned>>, or NoResult
  ip,            \* the local i of the Interpret that is followed turn by turn, 0 before any is
  call,          \* the function called last
  func_type,     \* FunctionValue::type_ of the function value whose CheckArgs is called, or Null
  call_args      \* the vector handed to CheckArgs, each Evaluatable given by its type

vars == <<pc, input, tokens_, lex_status, module_ptr_, parse_status, byte_code_,
          constants_, symbols_, lowered, eval_stack_, eval_consts_, symbol_table_, result, ip, call,
          func_type, call_args>>

\* a null pointer, an unset status, an absent token
Null == [kind |-> "null"]
\* result holds the returned value in a one-element sequence
NoResult == <<>>
EmptyMap == [x \in {} |-> 0]

(***************************************************************************)
(* Characters                                                              *)
(***************************************************************************)
\* input[input.size()] of a std::string is the terminating zero character
NUL == "NUL"

\* the printable ASCII characters, codes 32..126, in order (code 96 is spelled out)
Printable ==
  <<" ", "!", "\"", "#", "$", "%", "&", "'", "(", ")", "*", "+", ",", "-", ".", "/",
    "0", "1", "2", "3", "4", "5", "6", "7", "8", "9", ":", ";", "<", "=", ">", "?",
    "@", "A", "B", "C", "D", "E", "F", "G", "H", "I", "J", "K", "L", "M", "N", "O",
    "P", "Q", "R", "S", "T", "U", "V", "W", "X", "Y", "Z", "[", "\\", "]", "^", "_",
    "BACKQUOTE", "a", "b", "c", "d", "e", "f", "g", "h", "i", "j", "k", "l", "m", "n", "o",
    "p", "q", "r", "s", "t", "u", "v", "w", "x", "y", "z", "{", "|", "}", "~">>

\* the value of a char
Ord(c) ==
  CASE c = NUL  -> 0
    [] c = "\t" -> 9
    [] c = "\n" -> 10
    [] c = "\f" -> 12
    [] c = "\r" -> 13
    [] OTHER    -> 31 + (CHOOSE i \in 1..Len(Printable) : Printable[i] = c)

Chars == {Printable[i] : i \in 1..Len(Printable)} \cup {NUL, "\t", "\n", "\f", "\r"}

\* <cctype> in the C locale
SpaceChars == {c \in Chars : Ord(c) \in {9, 10, 11, 12, 13, 32}}
DigitChars == {c \in Chars : Ord(c) \in 48..57}
AlphaChars == {c \in Chars : Ord(c) \in (65..90) \cup (97..122)}
isspace(c) == c \in SpaceChars
isdigit(c) == c \in DigitChars
isalpha(c) == c \in AlphaChars

\* input[i] for a zero-based i <= input.size()
CharAt(in, i) == IF i < Len(in) THEN in[i + 1] ELSE NUL

(***************************************************************************)
(* Lexer.h: SourceLocation, Token, LexStatus                               *)
(***************************************************************************)
TOK_NONE    == "TOK_NONE"
TOK_LPAR    == "TOK_LPAR"
TOK_RPAR    == "TOK_RPAR"
TOK_INT     == "TOK_INT"
TOK_STR     == "TOK_STR"
TOK_ID      == "TOK_ID"
TOK_DEF     == "TOK_DEF"
TOK_SEMICOL == "TOK_SEMICOL"

SourceLocation(row, col) == [row |-> row, col |-> col]
\* SourceLocation() = default: row = col = -1
NoLocation == [row |-> -1, col |-> -1]

Token(kind, loc, chars) == [kind |-> kind, loc |-> loc, chars |-> chars]
\* Token(kind, chars): made with an invalid SourceLocation
TokenNoLoc(kind, chars) == Token(kind, NoLocation, chars)

\* Token::operator== does not compare the SourceLocation
TokenEq(a, b) == a.kind = b.kind /\ a.chars = b.chars

LEX_SUCCESS == "LEX_SUCCESS"
LEX_FAIL    == "LEX_FAIL"
\* outcomes of ReadTokens that are no LexStatus: the call does not return
LEX_DIVERGES == "LEX_DIVERGES"
LEX_UB       == "LEX_UB"

\* loc_ and failing_char_ are left uninitialized on success
Uninit == "uninitialized"
LexGetSuccess == [kind_ |-> LEX_SUCCESS, loc_ |-> Uninit, failing_char_ |-> Uninit]
LexGetFailure(loc, c) == [kind_ |-> LEX_FAIL, loc_ |-> loc, failing_char_ |-> c]

\* bool LexStatus::getFailingCharacter(): the char converted to bool, as an integer
getFailingCharacter(status) == IF Ord(status.failing_char_) # 0 THEN 1 ELSE 0
getFailingLocation(status) == status.loc_

(***************************************************************************)
(* Lexer.cpp: ReadTokens                                                   *)
(***************************************************************************)
\* the inner loop of the string branch: push c, advance current, read input[current], until c is
\* the closing quote.
\* input[current] with current > input.size() reads outside the string: undefined
RECURSIVE ScanStr(_, _, _)
ScanStr(in, current, str) ==
  IF current > Len(in) THEN [ub |-> TRUE, current |-> current, str |-> str]
  ELSE IF CharAt(in, current) = "\"" THEN [ub |-> FALSE, current |-> current, str |-> str]
  ELSE ScanStr(in, current + 1, Append(str, CharAt(in, current)))

\* the inner loops of the digit and alphabetic branches; input[size] is the zero character and ends the run
RECURSIVE ScanDigits(_, _, _)
ScanDigits(in, current, str) ==
  IF isdigit(CharAt(in, current))
  THEN ScanDigits(in, current + 1, Append(str, CharAt(in, current)))
  ELSE [current |-> current, str |-> str]

RECURSIVE ScanAlpha(_, _, _)
ScanAlpha(in, current, str) ==
  IF isalpha(CharAt(in, current))
  THEN ScanAlpha(in, current + 1, Append(str, CharAt(in, current)))
  ELSE [current |-> current, str |-> str]

LexOut(status, toks, current) == [status |-> status, tokens |-> toks, current |-> current]

\* the number of restarts after which the scan is no longer followed
MaxRow == 1

\* the while loop of ReadTokens from one (current, col, row), appending to result.
\* The newline branch sets current = 0: the scan restarts at the first character
\* with one more row and the column it had, appends the tokens ahead of the
\* newline once more and reaches the same newline again (no branch reads row),
\* so it never leaves the loop: LEX_DIVERGES, with the tokens appended so far.
RECURSIVE ReadTokensLoop(_, _, _, _, _)

\* the string branch behind its inner loop, s the outcome of that loop
ReadTokensStr(in, col, row, res, s) ==
  IF s.ub
  THEN LexOut([kind_ |-> LEX_UB, loc_ |-> SourceLocation(row, col), failing_char_ |-> Uninit],
              res, s.current)
  ELSE ReadTokensLoop(in, s.current + 1, col + Len(s.str) + 2, row,
                      Append(res, Token(TOK_STR, SourceLocation(row, col), s.str)))

\* the digit branch behind its inner loop
ReadTokensInt(in, col, row, res, s) ==
  ReadTokensLoop(in, s.current, col + Len(s.str), row,
                 Append(res, Token(TOK_INT, SourceLocation(row, col), s.str)))

\* the alphabetic branch behind its inner loop
ReadTokensAlpha(in, col, row, res, s) ==
  ReadTokensLoop(in, s.current, col + Len(s.str), row,
                 Append(res, Token(IF s.str = <<"d", "e", "f">> THEN TOK_DEF ELSE TOK_ID,
                                   SourceLocation(row, col), s.str)))

\* one turn of the loop on the character c = input[current]
ReadTokensChar(in, current, col, row, res, c) ==
  IF c = "(" THEN
    ReadTokensLoop(in, current + 1, col + 1, row,
                   Append(res, Token(TOK_LPAR, SourceLocation(row, col), <<"(">>)))
  ELSE IF c = ")" THEN
    ReadTokensLoop(in, current + 1, col + 1, row,
                   Append(res, Token(TOK_RPAR, SourceLocation(row, col), <<")">>)))
  ELSE IF c = "\"" THEN ReadTokensStr(in, col, row, res, ScanStr(in, current + 1, <<>>))
  ELSE IF isspace(c) THEN
    IF c = "\n"
    THEN IF row < MaxRow THEN ReadTokensLoop(in, 0, col, row + 1, res)
         ELSE LexOut([kind_ |-> LEX_DIVERGES, loc_ |-> SourceLocation(row, col),
                      failing_char_ |-> Uninit], res, 0)
    ELSE ReadTokensLoop(in, current + 1, col + 1, row, res)
  ELSE IF isdigit(c) THEN ReadTokensInt(in, col, row, res, ScanDigits(in, current, <<>>))
  ELSE IF isalpha(c) THEN ReadTokensAlpha(in, col, row, res, ScanAlpha(in, current, <<>>))
  ELSE LexOut(LexGetFailure(SourceLocation(row, col), c), res, current)

ReadTokensLoop(in, current, col, row, res) ==
  IF ~(current < Len(in)) THEN LexOut(LexGetSuccess, res, current)
  ELSE ReadTokensChar(in, current, col, row, res, in[current + 1])

\* LexStatus ReadTokens(const std::string &input, std::vector<Token> &result)
ReadTokens(in, res) == ReadTokensLoop(in, 0, 0, 0, res)

(***************************************************************************)
(* Parser.h: the AST.  Stmt and BinOp are the node classes Parser.cpp and  *)
(* lang.cpp construct; a node is a record of its kind and its children.    *)
(***************************************************************************)
NODE_MODULE == "NODE_MODULE"
NODE_ASSIGN == "NODE_ASSIGN"
NODE_INT    == "NODE_INT"
NODE_STR    == "NODE_STR"
NODE_ID     == "NODE_ID"
NODE_CALL   == "NODE_CALL"
NODE_STMT   == "NODE_STMT"
NODE_BINOP  == "NODE_BINOP"

BINOP_ADD == "BINOP_ADD"
BINOP_SUB == "BINOP_SUB"

ModuleNode(nodes)      == [kind |-> NODE_MODULE, nodes |-> nodes]
IntNode(val)           == [kind |-> NODE_INT, val |-> val]
StrNode(val)           == [kind |-> NODE_STR, val |-> val]
IDNode(name)           == [kind |-> NODE_ID, name |-> name]
AssignNode(dst, src)   == [kind |-> NODE_ASSIGN, dst |-> dst, src |-> src]
CallNode(func, args)   == [kind |-> NODE_CALL, func |-> func, args |-> args]
StmtNode(inner)        == [kind |-> NODE_STMT, inner |-> inner]
BinOpNode(op, lhs, rhs) == [kind |-> NODE_BINOP, op |-> op, lhs |-> lhs, rhs |-> rhs]

PARSE_SUCCESS                      == "PARSE_SUCCESS"
PARSE_FAIL                         == "PARSE_FAIL"
PARSE_FAIL_NO_LPAR                 == "PARSE_FAIL_NO_LPAR"
PARSE_FAIL_NO_RPAR                 == "PARSE_FAIL_NO_RPAR"
PARSE_FAIL_TOO_MANY_BINOP_OPERANDS == "PARSE_FAIL_TOO_MANY_BINOP_OPERANDS"
PARSE_FAIL_MISSING_SEMICOL         == "PARSE_FAIL_MISSING_SEMICOL"
\* ways a Read* call ends without a ParseStatus
PARSE_UNREACHABLE == "PARSE_UNREACHABLE"  \* lang_unreachable was executed
PARSE_CRASH       == "PARSE_CRASH"        \* a read outside the token vector faulted
PARSE_THROWS      == "PARSE_THROWS"       \* std::stol threw std::out_of_range

ParseKinds == {PARSE_SUCCESS, PARSE_FAIL, PARSE_FAIL_NO_LPAR, PARSE_FAIL_NO_RPAR,
               PARSE_FAIL_TOO_MANY_BINOP_OPERANDS, PARSE_FAIL_MISSING_SEMICOL}
ParseFailKinds == ParseKinds \ {PARSE_SUCCESS}

\* What a Read* function hands back: the status kind, the advanced current, the
\* node (*result), the token of a failure, and oob: whether input was indexed at
\* an index >= input.size() on the way.
POut(kind, cur, node, tok, oob) ==
  [kind |-> kind, cur |-> cur, node |-> node, tok |-> tok, oob |-> oob]
ParseGetSuccess(cur, node, oob) == POut(PARSE_SUCCESS, cur, node, Null, oob)
ParseGetFailure(kind, tok, cur, oob) == POut(kind, cur, Null, tok, oob)

\* lang_unreachable(msg): report and abort
lang_unreachable(cur, oob) == POut(PARSE_UNREACHABLE, cur, Null, Null, oob)

\* A read of input[i] with i >= input.size() is undefined.  g resolves it: "crash"
\* (the read faults), or the kind of the token the stray memory is read as.
CRASH == "crash"
GarbageToken(g) == Token(g, NoLocation, <<>>)
\* input.back()
Back(in) == in[Len(in)]

(***************************************************************************)
(* std::stol and the conversion long -> int32_t of ReadInt.  A long is     *)
(* kept as four 16-bit limbs, least significant first.                     *)
(***************************************************************************)
LimbBase == 2^16
DigitVal(c) == Ord(c) - 48

\* acc * 10 + d, limb by limb from limb i with the carry of the limbs below; the
\* top limb is left unreduced so that a value over 2^63 - 1 shows
RECURSIVE MulAddLimbs(_, _, _)
MulAddLimbs(acc, i, carry) ==
  IF i = 4 THEN <<acc[4] * 10 + carry>>
  ELSE <<(acc[i] * 10 + carry) % LimbBase>>
         \o MulAddLimbs(acc, i + 1, (acc[i] * 10 + carry) \div LimbBase)
StolStep(acc, d) == MulAddLimbs(acc, 1, d)

RECURSIVE StolLoop(_, _, _)
\* the value after digit i: out of range once it passes 2^63 - 1
StolNext(chars, i, n) ==
  IF n[4] >= LimbBase \div 2 THEN [ok |-> FALSE, limbs |-> n]
  ELSE StolLoop(chars, i + 1, n)
StolLoop(chars, i, acc) ==
  IF i > Len(chars) THEN [ok |-> TRUE, limbs |-> acc]
  ELSE StolNext(chars, i, StolStep(acc, DigitVal(chars[i])))

\* std::stol of a run of decimal digits: ok = FALSE when it throws std::out_of_range
Stol(chars) == StolLoop(chars, 1, <<0, 0, 0, 0>>)

\* int32_t val = <long>: the low 32 bits, read as two's complement
ToInt32(limbs) ==
  IF limbs[2] >= LimbBase \div 2
  THEN (limbs[2] - LimbBase) * LimbBase + limbs[1]
  ELSE limbs[2] * LimbBase + limbs[1]

(***************************************************************************)
(* Parser.cpp                                                              *)
(***************************************************************************)
\* Each parse function is entered with (input, current) and returns a POut; where
\* the code goes on with the result of a call, the model goes on in an operator
\* of its own that takes that result.
RECURSIVE ReadNode(_, _, _)

\* a status with the out-of-bounds reads made before it was built
WithOob(r, oob) == [r EXCEPT !.oob = @ \/ oob]

\* ReadBinOpOperands from the check for the right paren that records the operands the wrong way round
ReadBinOpOperandsEnd_swapped(in, kind, g, oob, lhs, rhs, tok) ==
  IF ~(rhs.cur < Len(in)) /\ g = CRASH THEN POut(PARSE_CRASH, rhs.cur, Null, Null, TRUE)
  ELSE IF tok.kind # TOK_RPAR
  THEN ParseGetFailure(PARSE_FAIL_TOO_MANY_BINOP_OPERANDS, tok, rhs.cur, oob)
  ELSE ParseGetSuccess(rhs.cur + 1, BinOpNode(kind, rhs.node, lhs.node), oob)

\* ReadBinOpOperands from the check for the right paren that takes the first two
\* operands and lets the caller go on behind them
ReadBinOpOperandsEnd_truncating(in, kind, g, oob, lhs, rhs, tok) ==
  IF ~(rhs.cur < Len(in)) /\ g = CRASH THEN POut(PARSE_CRASH, rhs.cur, Null, Null, TRUE)
  ELSE IF tok.kind # TOK_RPAR
  THEN ParseGetSuccess(rhs.cur, BinOpNode(kind, lhs.node, rhs.node), oob)
  ELSE ParseGetSuccess(rhs.cur + 1, BinOpNode(kind, lhs.node, rhs.node), oob)

\* ReadBinOpOperands, lines 36-46: tok = input[current] behind the two operands,
\* a read outside the vector when current = input.size()
ReadBinOpOperandsEnd(in, kind, g, oob, lhs, rhs, tok) ==
  IF ~(rhs.cur < Len(in)) /\ g = CRASH THEN POut(PARSE_CRASH, rhs.cur, Null, Null, TRUE)
  ELSE IF tok.kind # TOK_RPAR
  THEN ParseGetFailure(PARSE_FAIL_TOO_MANY_BINOP_OPERANDS, tok, rhs.cur, oob)
  ELSE ParseGetSuccess(rhs.cur + 1, BinOpNode(kind, lhs.node, rhs.node), oob)

\* ReadBinOpOperands, lines 32-34, with the status of reading rhs
ReadBinOpOperandsRhs(in, kind, g, oob0, lhs, rhs) ==
  IF rhs.kind # PARSE_SUCCESS THEN WithOob(rhs, oob0 \/ lhs.oob)
  ELSE ReadBinOpOperandsEnd(in, kind, g,
                            oob0 \/ lhs.oob \/ rhs.oob \/ ~(rhs.cur < Len(in)), lhs, rhs,
                            IF rhs.cur < Len(in) THEN in[rhs.cur + 1] ELSE GarbageToken(g))

\* ReadBinOpOperands, lines 28-30, with the status of reading lhs
ReadBinOpOperandsLhs(in, kind, g, oob0, lhs) ==
  IF lhs.kind # PARSE_SUCCESS THEN WithOob(lhs, oob0)
  ELSE ReadBinOpOperandsRhs(in, kind, g, oob0, lhs, ReadNode(in, lhs.cur, g))

\* ReadBinOpOperands is entered with current just past the operator name;
\* start_loc = input[current].loc is a read outside the vector when current = input.size()
ReadBinOpOperands(in, current, kind, g) ==
  IF ~(current < Len(in)) /\ g = CRASH THEN POut(PARSE_CRASH, current, Null, Null, TRUE)
  ELSE ReadBinOpOperandsLhs(in, kind, g, ~(current < Len(in)), ReadNode(in, current, g))

\* the argument loop of ReadCall
RECURSIVE ReadCallArgs(_, _, _, _, _, _)
ReadCallArg(in, func, args, oob, g, arg) ==
  IF arg.kind # PARSE_SUCCESS THEN WithOob(arg, oob)
  ELSE ReadCallArgs(in, arg.cur, func, Append(args, arg.node), oob \/ arg.oob, g)
ReadCallArgs(in, current, func, args, oob, g) ==
  IF current < Len(in) THEN
    IF in[current + 1].kind = TOK_RPAR
    THEN ParseGetSuccess(current + 1, CallNode(func, args), oob)
    ELSE ReadCallArg(in, func, args, oob, g, ReadNode(in, current, g))
  ELSE ParseGetFailure(PARSE_FAIL_NO_RPAR, Back(in), current, oob)

\* ReadCall, lines 58-96, with the status of reading the callee
ReadCallFunc(in, g, func) ==
  IF func.kind # PARSE_SUCCESS THEN func
  ELSE IF func.node.kind = NODE_ID /\ func.node.name = <<"a", "d", "d">>
  THEN WithOob(ReadBinOpOperands(in, func.cur, BINOP_ADD, g), func.oob)
  ELSE IF func.node.kind = NODE_ID /\ func.node.name = <<"s", "u", "b">>
  THEN WithOob(ReadBinOpOperands(in, func.cur, BINOP_SUB, g), func.oob)
  ELSE ReadCallArgs(in, func.cur, func.node, <<>>, func.oob, g)

\* ReadCall is entered with input[current] the left paren
ReadCall(in, current, g) == ReadCallFunc(in, g, ReadNode(in, current + 1, g))

\* ReadInt with the outcome of std::stol(tok.chars)
ReadIntVal(tok, current, l) ==
  IF ~l.ok THEN POut(PARSE_THROWS, current, Null, tok, FALSE)
  ELSE ParseGetSuccess(current + 1, IntNode(ToInt32(l.limbs)), FALSE)
ReadInt(in, current) == ReadIntVal(in[current + 1], current, Stol(in[current + 1].chars))

ReadStr(in, current) == ParseGetSuccess(current + 1, StrNode(in[current + 1].chars), FALSE)

ReadID(in, current) == ParseGetSuccess(current + 1, IDNode(in[current + 1].chars), FALSE)

\* ReadDefine, lines 141-147, with the status of reading src
ReadDefineSrc(dst, src) ==
  IF src.kind # PARSE_SUCCESS THEN WithOob(src, dst.oob)
  ELSE ParseGetSuccess(src.cur, AssignNode(dst.node, src.node), dst.oob \/ src.oob)
\* ReadDefine, lines 135-137, with the status of reading dst
ReadDefineDst(in, g, dst) ==
  IF dst.kind # PARSE_SUCCESS THEN dst
  ELSE ReadDefineSrc(dst, ReadNode(in, dst.cur, g))
\* ReadDefine is entered with input[current] the def token
ReadDefine(in, current, g) == ReadDefineDst(in, g, ReadNode(in, current + 1, g))

\* every case of the switch returns or aborts, so the while loop runs at most once
ReadNode(in, current, g) ==
  IF current < Len(in) THEN
    CASE in[current + 1].kind = TOK_LPAR    -> ReadCall(in, current, g)
      [] in[current + 1].kind = TOK_INT     -> ReadInt(in, current)
      [] in[current + 1].kind = TOK_STR     -> ReadStr(in, current)
      [] in[current + 1].kind = TOK_ID      -> ReadID(in, current)
      [] in[current + 1].kind = TOK_RPAR    ->
           ParseGetFailure(PARSE_FAIL_NO_LPAR, in[current + 1], current, FALSE)
      [] in[current + 1].kind = TOK_DEF     -> ReadDefine(in, current, g)
      [] in[current + 1].kind = TOK_NONE    -> lang_unreachable(current, FALSE)
      [] in[current + 1].kind = TOK_SEMICOL -> lang_unreachable(current, FALSE)
  ELSE ParseGetFailure(PARSE_FAIL, Back(in), current, FALSE)

\* ReadStmt, lines 189-203, with the status of reading the inner node
ReadStmtInner(in, inner) ==
  IF inner.kind # PARSE_SUCCESS THEN inner
  ELSE IF inner.cur >= Len(in)
  THEN ParseGetFailure(PARSE_FAIL_MISSING_SEMICOL, Back(in), inner.cur, inner.oob)
  ELSE IF in[inner.cur + 1].kind # TOK_SEMICOL
  THEN ParseGetFailure(PARSE_FAIL_MISSING_SEMICOL, in[inner.cur + 1], inner.cur, inner.oob)
  ELSE ParseGetSuccess(inner.cur + 1, StmtNode(inner.node), inner.oob)
\* ReadStmt is entered with current < input.size()
ReadStmt(in, current, g) == ReadStmtInner(in, ReadNode(in, current, g))

\* the loop of ReadModule, then input.front().loc: on an empty vector front() is
\* a read at index 0 >= input.size()
RECURSIVE ReadModuleLoop(_, _, _, _, _)
ReadModuleStmt(in, nodes, oob, g, s) ==
  IF s.kind # PARSE_SUCCESS THEN WithOob(s, oob)
  ELSE ReadModuleLoop(in, s.cur, Append(nodes, s.node), oob \/ s.oob, g)
ReadModuleLoop(in, current, nodes, oob, g) ==
  IF current < Len(in) THEN ReadModuleStmt(in, nodes, oob, g, ReadStmt(in, current, g))
  ELSE IF Len(in) = 0
  THEN IF g = CRASH THEN POut(PARSE_CRASH, current, Null, Null, TRUE)
       ELSE ParseGetSuccess(current, ModuleNode(nodes), TRUE)
  ELSE ParseGetSuccess(current, ModuleNode(nodes), oob)

\* ParseStatus ReadModule(const std::vector<Token> &input, Module **module)
ReadModule(in, g) == ReadModuleLoop(in, 0, <<>>, FALSE, g)

(***************************************************************************)
(* Interpret.h: Instruction, ByteCode, Evaluatable                         *)
(***************************************************************************)
INSTR_PUSH   == 0
INSTR_ADD_OP == 1
INSTR_SUB_OP == 2
INSTR_CALL   == 3
INSTR_STORE  == 4

\* the load instruction: the tests name it (lang::INSTR_LOAD), the enum has no such member
INSTR_LOAD == 5

\* ByteCode::GetInstr and ByteCode::GetValue fill the same 64 bits of the union
GetInstr(instr) == instr
GetValue(val)   == val

TYPE_STR == "TYPE_STR"
\* Evaluatable::GetStr(val) builds a local Evaluatable and returns an rvalue
\* reference to it: the caller copies from an object whose lifetime has ended.
\* u resolves that undefined read: the stale bytes still hold the string
\* ("stale"), they hold something else ("garbage"), or the copy faults (CRASH).
STALE   == "stale"
GARBAGE == "garbage"
UBChoices == {STALE, GARBAGE, CRASH}
EvaluatableGetStr(val, u) ==
  IF u = STALE THEN [type |-> TYPE_STR, val |-> val] ELSE [type |-> TYPE_STR, val |-> <<GARBAGE>>]

(***************************************************************************)
(* Interpret.cpp: ByteCodeEmitter.  The emitter is the record e of its     *)
(* three members and fatal:               "none", "assert" once an    *)
(* assertion has failed, "crash" once an undefined read has faulted.       *)
(***************************************************************************)
NONE   == "none"
ASSERT == "assert"

Emitter(code, consts, syms) ==
  [byte_code_ |-> code, constants_ |-> consts, symbols_ |-> syms, fatal |-> NONE]

PushBackInstr(e, instr) == [e EXCEPT !.byte_code_ = Append(@, GetInstr(instr))]
PushBackValue(e, val)   == [e EXCEPT !.byte_code_ = Append(@, GetValue(val))]

uniqueSymbolExists(e, name) == name \in DOMAIN e.symbols_

\* assert(!uniqueSymbolExists(name)); new_id = symbols_.size(); symbols_[name] = new_id
makeUniqueSymbolID(e, name) ==
  IF uniqueSymbolExists(e, name) THEN [e EXCEPT !.fatal = ASSERT]
  ELSE LET new_id == Cardinality(DOMAIN e.symbols_) IN
       [e EXCEPT !.symbols_ = [n \in DOMAIN e.symbols_ \cup {name} |->
                                 IF n = name THEN new_id ELSE e.symbols_[n]]]

VisitInt(node, e) == PushBackValue(PushBackInstr(e, INSTR_PUSH), node.val)

VisitStr(node, e, u) ==
  IF u = CRASH THEN [PushBackInstr(e, INSTR_PUSH) EXCEPT !.fatal = CRASH]
  ELSE PushBackValue([PushBackInstr(e, INSTR_PUSH) EXCEPT
                        !.constants_ = Append(@, EvaluatableGetStr(node.val, u))],
                     Len(e.constants_))

\* VisitID that gives a name that is not registered the id 0 instead of failing
VisitID_defaulting(node, e) ==
  IF node.name = <<"a", "d", "d">> THEN PushBackInstr(e, INSTR_ADD_OP)
  ELSE IF node.name = <<"s", "u", "b">> THEN PushBackInstr(e, INSTR_SUB_OP)
  ELSE IF ~uniqueSymbolExists(e, node.name) THEN PushBackValue(PushBackInstr(e, INSTR_PUSH), 0)
  ELSE PushBackValue(PushBackInstr(e, INSTR_PUSH), e.symbols_[node.name])

\* getUniqueSymbolID asserts that the name is registered
VisitID(node, e) ==
  IF node.name = <<"a", "d", "d">> THEN PushBackInstr(e, INSTR_ADD_OP)
  ELSE IF node.name = <<"s", "u", "b">> THEN PushBackInstr(e, INSTR_SUB_OP)
  ELSE IF ~uniqueSymbolExists(e, node.name) THEN [e EXCEPT !.fatal = ASSERT]
  ELSE PushBackValue(PushBackInstr(e, INSTR_PUSH), e.symbols_[node.name])

RECURSIVE Visit(_, _, _)

RECURSIVE VisitNodeSequence(_, _, _, _)
VisitNodeSequence(nodes, i, e, u) ==
  IF i > Len(nodes) THEN e
  ELSE VisitNodeSequence(nodes, i + 1, Visit(nodes[i], e, u), u)

VisitModule(node, e, u) == VisitNodeSequence(node.nodes, 1, e, u)

\* VisitAssign behind the two visits: the store instruction
VisitAssignStore(e) == IF e.fatal # NONE THEN e ELSE PushBackInstr(e, INSTR_STORE)

VisitAssign(node, e, u) ==
  VisitAssignStore(
    Visit(node.src,
          Visit(node.dst,
                IF node.dst.kind = NODE_ID /\ ~uniqueSymbolExists(e, node.dst.name)
                THEN makeUniqueSymbolID(e, node.dst.name) ELSE e,
                u),
          u))

VisitCall(node, e, u) ==
  Visit(node.func, VisitNodeSequence(node.args, 1, e, u), u)

\* ASTVisitor::Visit: the switch has a case for six node kinds; a node of any
\* other kind (NODE_STMT, NODE_BINOP) matches none and nothing is visited.
\* Nothing runs once an assertion has failed.
Visit(node, e, u) ==
  IF e.fatal # NONE THEN e
  ELSE CASE node.kind = NODE_MODULE -> VisitModule(node, e, u)
         [] node.kind = NODE_INT    -> VisitInt(node, e)
         [] node.kind = NODE_STR    -> VisitStr(node, e, u)
         [] node.kind = NODE_ID     -> VisitID(node, e)
         [] node.kind = NODE_CALL   -> VisitCall(node, e, u)
         [] node.kind = NODE_ASSIGN -> VisitAssign(node, e, u)
         [] OTHER                   -> e

ConvertToByteCode(node, e, u) == Visit(node, e, u)

(***************************************************************************)
(* Interpret.h, Interpret.cpp: Type and FunctionValue                      *)
(***************************************************************************)
\* Type: IntType, StrType, and FuncType with its return type and argument types
TYPE_INT  == "TYPE_INT"
TYPE_FUNC == "TYPE_FUNC"
IntType == [kind |-> TYPE_INT]
StrType == [kind |-> TYPE_STR]
FuncType(ret_type, arg_types) == [kind |-> TYPE_FUNC, ret_type_ |-> ret_type, arg_types_ |-> arg_types]
getNumArgs(type) == Len(type.arg_types_)

\* bool Type::equals(const Type &other), the override of the class of a.  The one
\* of FuncType compares the number of arguments and the argument types, one
\* position after the other; the return types are not compared.
RECURSIVE TypeEquals(_, _)
TypeEquals(a, other) ==
  CASE a.kind = TYPE_INT -> other.kind = TYPE_INT
    [] a.kind = TYPE_STR -> other.kind = TYPE_STR
    [] a.kind = TYPE_FUNC ->
         /\ other.kind = TYPE_FUNC
         /\ getNumArgs(other) = getNumArgs(a)
         /\ \A i \in 1..getNumArgs(a) : TypeEquals(a.arg_types_[i], other.arg_types_[i])

\* the for loop of CheckArgs from i down to 1: getArgTypes()[i - 1] is compared
\* with the type of args[args.size() - i]
RECURSIVE CheckArgsLoop(_, _, _)
CheckArgsLoop(type, as, i) ==
  IF i = 0 THEN NONE
  ELSE IF ~TypeEquals(type.arg_types_[i], as[Len(as) - i + 1]) THEN ASSERT
  ELSE CheckArgsLoop(type, as, i - 1)

\* void FunctionValue::CheckArgs(const std::vector<Evaluatable> &args) const:
\* NONE when it returns, ASSERT when one of its assertions fails
CheckArgs(type, as) ==
  IF ~(Len(as) >= getNumArgs(type)) THEN ASSERT
  ELSE CheckArgsLoop(type, as, getNumArgs(type))

(***************************************************************************)
(* Interpret.h, Interpret.cpp: ByteCodeEvaluator                           *)
(***************************************************************************)
\* InitializeSymbolTable that leaves the value of an id the table already holds,
\* as symbol_table_.insert({it->second, 0}) would
InitializeSymbolTable_keeping(table, symbols) ==
  LET ids == {symbols[n] : n \in DOMAIN symbols} IN
  [id \in DOMAIN table \cup ids |-> IF id \in DOMAIN table THEN table[id] ELSE 0]

\* symbol_table_[it->second] = 0 for every symbol; entries already there stay
InitializeSymbolTable(table, symbols) ==
  LET ids == {symbols[n] : n \in DOMAIN symbols} IN
  [id \in DOMAIN table \cup ids |-> IF id \in ids THEN 0 ELSE table[id]]

DONE  == "done"
HANGS == "hangs"
IOut(stack, table, i, end) == [eval_stack_ |-> stack, symbol_table_ |-> table, i |-> i, end |-> end]

\* the value read from codes[i + 1] when i + 1 = codes.size()
GarbageValue(u) == IF u = STALE THEN 0 ELSE 0 - 1

RUNNING == "running"

\* InterpretTurn whose store makes an entry for an id the table does not hold,
\* as symbol_table_[dst_id] = val does without the assert ahead of it
InterpretTurn_inserting(codes, i, stack, table, u) ==
  CASE codes[i + 1] = INSTR_PUSH ->
         IF i + 1 < Len(codes)
         THEN IOut(Append(stack, codes[i + 2]), table, i + 2, RUNNING)
         ELSE IF u = CRASH THEN IOut(stack, table, i, CRASH)
         ELSE IOut(Append(stack, GarbageValue(u)), table, i + 2, RUNNING)
    [] codes[i + 1] = INSTR_ADD_OP ->
         IF Len(stack) < 2 THEN IOut(stack, table, i, ASSERT)
         ELSE IOut(Append(SubSeq(stack, 1, Len(stack) - 2),
                          stack[Len(stack) - 1] + stack[Len(stack)]), table, i + 1, RUNNING)
    [] codes[i + 1] = INSTR_SUB_OP ->
         IF Len(stack) < 2 THEN IOut(stack, table, i, ASSERT)
         ELSE IOut(Append(SubSeq(stack, 1, Len(stack) - 2),
                          stack[Len(stack) - 1] - stack[Len(stack)]), table, i + 1, RUNNING)
    [] codes[i + 1] = INSTR_CALL -> IOut(stack, table, i, ASSERT)
    [] codes[i + 1] = INSTR_STORE ->
         IF Len(stack) < 2 THEN IOut(stack, table, i, ASSERT)
         ELSE IOut(SubSeq(stack, 1, Len(stack) - 2),
                   [id \in DOMAIN table \cup {stack[Len(stack) - 1]} |->
                      IF id = stack[Len(stack) - 1] THEN stack[Len(stack)] ELSE table[id]],
                   i + 1, RUNNING)
    [] OTHER -> IOut(stack, table, i, HANGS)

\* InterpretTurn whose push moves i by one, onto the slot of its operand
InterpretTurn_stepping(codes, i, stack, table, u) ==
  CASE codes[i + 1] = INSTR_PUSH ->
         IF i + 1 < Len(codes)
         THEN IOut(Append(stack, codes[i + 2]), table, i + 1, RUNNING)
         ELSE IF u = CRASH THEN IOut(stack, table, i, CRASH)
         ELSE IOut(Append(stack, GarbageValue(u)), table, i + 2, RUNNING)
    [] codes[i + 1] = INSTR_ADD_OP ->
         IF Len(stack) < 2 THEN IOut(stack, table, i, ASSERT)
         ELSE IOut(Append(SubSeq(stack, 1, Len(stack) - 2),
                          stack[Len(stack) - 1] + stack[Len(stack)]), table, i + 1, RUNNING)
    [] codes[i + 1] = INSTR_SUB_OP ->
         IF Len(stack) < 2 THEN IOut(stack, table, i, ASSERT)
         ELSE IOut(Append(SubSeq(stack, 1, Len(stack) - 2),
                          stack[Len(stack) - 1] - stack[Len(stack)]), table, i + 1, RUNNING)
    [] codes[i + 1] = INSTR_CALL -> IOut(stack, table, i, ASSERT)
    [] codes[i + 1] = INSTR_STORE ->
         IF Len(stack) < 2 THEN IOut(stack, table, i, ASSERT)
         ELSE IF stack[Len(stack) - 1] \notin DOMAIN table
         THEN IOut(SubSeq(stack, 1, Len(stack) - 2), table, i, ASSERT)
         ELSE IOut(SubSeq(stack, 1, Len(stack) - 2),
                   [table EXCEPT ![stack[Len(stack) - 1]] = stack[Len(stack)]], i + 1, RUNNING)
    [] OTHER -> IOut(stack, table, i, HANGS)

\* One turn of the while loop of Interpret with i < codes.size(): the record of the
\* stack, the table and i behind it, end = RUNNING when the loop goes on.  A slot
\* that is none of the five instructions matches no case: i stays and the loop
\* never ends.  The assert of the push case, i <= codes.size() - 1, holds whenever
\* the loop condition does, so codes[i + 1] is read even when i + 1 = codes.size().
InterpretTurn(codes, i, stack, table, u) ==
  CASE codes[i + 1] = INSTR_PUSH ->
         IF i + 1 < Len(codes)
         THEN IOut(Append(stack, codes[i + 2]), table, i + 2, RUNNING)
         ELSE IF u = CRASH THEN IOut(stack, table, i, CRASH)
         ELSE IOut(Append(stack, GarbageValue(u)), table, i + 2, RUNNING)
    [] codes[i + 1] = INSTR_ADD_OP ->
         IF Len(stack) < 2 THEN IOut(stack, table, i, ASSERT)
         ELSE IOut(Append(SubSeq(stack, 1, Len(stack) - 2),
                          stack[Len(stack) - 1] + stack[Len(stack)]), table, i + 1, RUNNING)
    [] codes[i + 1] = INSTR_SUB_OP ->
         IF Len(stack) < 2 THEN IOut(stack, table, i, ASSERT)
         ELSE IOut(Append(SubSeq(stack, 1, Len(stack) - 2),
                          stack[Len(stack) - 1] - stack[Len(stack)]), table, i + 1, RUNNING)
    [] codes[i + 1] = INSTR_CALL -> IOut(stack, table, i, ASSERT)
    [] codes[i + 1] = INSTR_STORE ->
         IF Len(stack) < 2 THEN IOut(stack, table, i, ASSERT)
         ELSE IF stack[Len(stack) - 1] \notin DOMAIN table
         THEN IOut(SubSeq(stack, 1, Len(stack) - 2), table, i, ASSERT)
         ELSE IOut(SubSeq(stack, 1, Len(stack) - 2),
                   [table EXCEPT ![stack[Len(stack) - 1]] = stack[Len(stack)]], i + 1, RUNNING)
    [] OTHER -> IOut(stack, table, i, HANGS)

\* the while loop of Interpret from instruction pointer i
RECURSIVE InterpretLoop(_, _, _, _, _)
InterpretNext(codes, u, r) ==
  IF r.end = RUNNING THEN InterpretLoop(codes, r.i, r.eval_stack_, r.symbol_table_, u) ELSE r
InterpretLoop(codes, i, stack, table, u) ==
  IF ~(i < Len(codes)) THEN IOut(stack, table, i, DONE)
  ELSE InterpretNext(codes, u, InterpretTurn(codes, i, stack, table, u))

\* void ByteCodeEvaluator::Interpret(const std::vector<ByteCode> &codes)
Interpret(codes, stack, table, u) == InterpretLoop(codes, 0, stack, table, u)

(***************************************************************************)
(* lang.cpp: Compiler                                                      *)
(***************************************************************************)
\* the most nodes handed to one emitter between two resets
MaxLowered == 3

RETURNED == "returned"
ABORTED  == "aborted"
HUNG     == "hung"
CRASHED  == "crashed"
IDLE     == "idle"
START    == "start"

\* The ways a call of ReadTokens(in, res) can end.  An undefined read past the
\* end of the text (a string literal that is not closed) either faults or finds a
\* quote in the bytes behind the text and closes the literal there.
LexOutcome(r) ==
  IF r.status.kind_ = LEX_UB
  THEN {[pc |-> CRASHED, status |-> r.status, tokens |-> r.tokens],
        [pc |-> RETURNED, status |-> LexGetSuccess,
         tokens |-> Append(r.tokens, Token(TOK_STR, r.status.loc_, <<GARBAGE>>))]}
  ELSE IF r.status.kind_ = LEX_DIVERGES
  THEN {[pc |-> HUNG, status |-> r.status, tokens |-> r.tokens]}
  ELSE {[pc |-> RETURNED, status |-> r.status, tokens |-> r.tokens]}
LexOutcomes(in, res) == LexOutcome(ReadTokens(in, res))

\* the garbage a read outside the token vector can be resolved to
ParseUB == {CRASH, TOK_RPAR, TOK_NONE}

\* The ways a call of ReadModule(in, &module) can end; module is written on success only.
ParseOutcome(r, old_module) ==
  [pc     |-> IF r.kind \in ParseKinds THEN RETURNED
              ELSE IF r.kind = PARSE_CRASH THEN CRASHED ELSE ABORTED,
   status |-> [kind_ |-> r.kind, tok_ |-> r.tok, oob |-> r.oob],
   module |-> IF r.kind = PARSE_SUCCESS THEN r.node ELSE old_module]
ParseOutcomes(in, old_module) == {ParseOutcome(ReadModule(in, g), old_module) : g \in ParseUB}

FatalPc(fatal) == IF fatal = CRASH THEN CRASHED ELSE ABORTED

\* the members of a freshly constructed Compiler
FreshCompiler ==
  /\ tokens_ = <<>> /\ lex_status = Null
  /\ module_ptr_ = Null /\ parse_status = Null
  /\ byte_code_ = <<>> /\ constants_ = <<>> /\ symbols_ = EmptyMap /\ lowered = <<>>
  /\ eval_stack_ = <<>> /\ eval_consts_ = <<>> /\ symbol_table_ = EmptyMap
  /\ result = NoResult
  /\ ip = 0
  /\ func_type = Null /\ call_args = <<>>

Alive == pc \in {IDLE, RETURNED}

\* LexStatus Compiler::Lex(input): ResetTokens(), then ReadTokens(input, tokens_)
Lex(s) ==
  /\ Alive
  /\ \E o \in LexOutcomes(s, <<>>) :
       /\ pc' = o.pc
       /\ lex_status' = o.status
       /\ tokens_' = o.tokens
  /\ input' = s
  /\ call' = "Lex"
  /\ UNCHANGED <<module_ptr_, parse_status, byte_code_, constants_, symbols_, lowered,
                 eval_stack_, eval_consts_, symbol_table_, result, ip, func_type, call_args>>

\* ParseStatus Compiler::Parse(): ResetModule(), then ReadModule(tokens_, &module_ptr_)
Parse ==
  /\ Alive
  /\ \E o \in ParseOutcomes(tokens_, Null) :
       /\ pc' = o.pc
       /\ parse_status' = o.status
       /\ module_ptr_' = o.module
  /\ call' = "Parse"
  /\ UNCHANGED <<input, tokens_, lex_status, byte_code_, constants_, symbols_, lowered,
                 eval_stack_, eval_consts_, symbol_table_, result, ip, func_type, call_args>>

\* void Compiler::GenerateByteCode(): emitter_.ConvertToByteCode(*module_ptr_).
\* With module_ptr_ null the node is read through a null pointer, which faults.
GenerateByteCode ==
  /\ Alive
  /\ Len(lowered) < MaxLowered
  /\ IF module_ptr_ = Null
     THEN pc' = CRASHED /\ UNCHANGED <<byte_code_, constants_, symbols_, lowered>>
     ELSE \E e \in {ConvertToByteCode(module_ptr_, Emitter(byte_code_, constants_, symbols_), u)
                    : u \in UBChoices} :
            /\ pc' = IF e.fatal = NONE THEN RETURNED ELSE FatalPc(e.fatal)
            /\ byte_code_' = e.byte_code_
            /\ constants_' = e.constants_
            /\ symbols_' = e.symbols_
            /\ lowered' = Append(lowered, module_ptr_)
  /\ call' = "GenerateByteCode"
  /\ UNCHANGED <<input, tokens_, lex_status, module_ptr_, parse_status,
                 eval_stack_, eval_consts_, symbol_table_, result, ip, func_type, call_args>>

\* void Compiler::EvaluateByteCode(): InitializeConstants, InitializeSymbolTable, Interpret
EvaluateByteCode ==
  /\ Alive
  /\ \E r \in {Interpret(byte_code_, eval_stack_,
                         InitializeSymbolTable(symbol_table_, symbols_), u) : u \in UBChoices} :
       /\ pc' = CASE r.end = DONE -> RETURNED [] r.end = HANGS -> HUNG
                  [] r.end = CRASH -> CRASHED [] OTHER -> ABORTED
       /\ eval_stack_' = r.eval_stack_
       /\ symbol_table_' = r.symbol_table_
  /\ eval_consts_' = constants_
  /\ call' = "EvaluateByteCode"
  /\ UNCHANGED <<input, tokens_, lex_status, module_ptr_, parse_status,
                 byte_code_, constants_, symbols_, lowered, result, ip, func_type, call_args>>

\* What ResetAndCompile(s) leaves behind, from ResetComponents to getOnlyEvalResult:
\* ResetComponents clears every member; Run asserts that Lex and Parse succeed,
\* then GenerateByteCode and EvaluateByteCode; getOnlyEvalResult asserts that the
\* eval stack holds one value and returns it.  The record holds the members and
\* the process state at the point where the call returned or the process ended.
CompileState(o_pc, toks, lstat, mod, pstat, e, low, stack, consts, table, res) ==
  [pc |-> o_pc, tokens_ |-> toks, lex_status |-> lstat, module_ptr_ |-> mod,
   parse_status |-> pstat, byte_code_ |-> e.byte_code_, constants_ |-> e.constants_,
   symbols_ |-> e.symbols_, lowered |-> low, eval_stack_ |-> stack,
   eval_consts_ |-> consts, symbol_table_ |-> table, result |-> res]

\* emitter_.ResetComponents(): the three members are cleared
EmitterResetComponents(e) == Emitter(<<>>, <<>>, EmptyMap)

\* eval_.ResetComponents(): the three members are cleared
EvaluatorResetComponents(ev) == [eval_stack_ |-> <<>>, constants_ |-> <<>>, symbol_table_ |-> EmptyMap]

\* Run behind EvaluateByteCode, then getOnlyEvalResult: r the outcome of Interpret
RunEvaluated(l, p, e, r) ==
  CompileState(CASE r.end = HANGS -> HUNG [] r.end = CRASH -> CRASHED
                 [] r.end = DONE /\ Len(r.eval_stack_) = 1 -> RETURNED [] OTHER -> ABORTED,
               l.tokens, l.status, p.module, p.status, e, <<p.module>>,
               r.eval_stack_, e.constants_, r.symbol_table_,
               IF r.end = DONE /\ Len(r.eval_stack_) = 1
               THEN <<r.eval_stack_[1]>> ELSE NoResult)

\* Run behind GenerateByteCode: e the emitter after ConvertToByteCode
RunGenerated(l, p, ev0, e) ==
  IF e.fatal # NONE
  THEN {CompileState(FatalPc(e.fatal), l.tokens, l.status, p.module, p.status, e,
                     <<p.module>>, ev0.eval_stack_, ev0.constants_, ev0.symbol_table_, NoResult)}
  ELSE {RunEvaluated(l, p, e,
                     Interpret(e.byte_code_, ev0.eval_stack_,
                               InitializeSymbolTable(ev0.symbol_table_, e.symbols_), v))
        : v \in UBChoices}

\* Run behind assert(Parse()): p the outcome of Parse
RunParsed(l, e0, ev0, p) ==
  IF p.pc # RETURNED \/ p.status.kind_ # PARSE_SUCCESS
  THEN {CompileState(IF p.pc = RETURNED THEN ABORTED ELSE p.pc, l.tokens, l.status,
                     p.module, p.status, e0, <<>>, ev0.eval_stack_, ev0.constants_,
                     ev0.symbol_table_, NoResult)}
  ELSE UNION {RunGenerated(l, p, ev0, ConvertToByteCode(p.module, e0, u)) : u \in UBChoices}

\* Run behind assert(Lex(input)): l the outcome of Lex
RunLexed(e0, ev0, l) ==
  IF l.pc # RETURNED \/ l.status.kind_ # LEX_SUCCESS
  THEN {CompileState(IF l.pc = RETURNED THEN ABORTED ELSE l.pc, l.tokens, l.status, Null, Null,
                     e0, <<>>, ev0.eval_stack_, ev0.constants_, ev0.symbol_table_, NoResult)}
  ELSE UNION {RunParsed(l, e0, ev0, p) : p \in ParseOutcomes(l.tokens, Null)}

ResetAndCompileOutcomes(s, e_old, ev_old) ==
  UNION {RunLexed(EmitterResetComponents(e_old), EvaluatorResetComponents(ev_old), l)
         : l \in LexOutcomes(s, <<>>)}

\* int64_t Compiler::ResetAndCompile(input)
ResetAndCompile(s) ==
  /\ Alive
  /\ \E o \in ResetAndCompileOutcomes(s, Emitter(byte_code_, constants_, symbols_),
                [eval_stack_ |-> eval_stack_, constants_ |-> eval_consts_,
                 symbol_table_ |-> symbol_table_]) :
       /\ pc' = o.pc
       /\ tokens_' = o.tokens_ /\ lex_status' = o.lex_status
       /\ module_ptr_' = o.module_ptr_ /\ parse_status' = o.parse_status
       /\ byte_code_' = o.byte_code_ /\ constants_' = o.constants_
       /\ symbols_' = o.symbols_ /\ lowered' = o.lowered
       /\ eval_stack_' = o.eval_stack_ /\ eval_consts_' = o.eval_consts_
       /\ symbol_table_' = o.symbol_table_
       /\ result' = o.result
  /\ ip' = ip
  /\ UNCHANGED <<func_type, call_args>>
  /\ input' = s
  /\ call' = "ResetAndCompile"

\* Compiler(): a new instance, in a process of its own when the last one ended
NewCompiler ==
  /\ pc # START
  /\ pc' = IDLE
  /\ input' = <<>>
  /\ call' = "Compiler"
  /\ tokens_' = <<>> /\ lex_status' = Null
  /\ module_ptr_' = Null /\ parse_status' = Null
  /\ byte_code_' = <<>> /\ constants_' = <<>> /\ symbols_' = EmptyMap /\ lowered' = <<>>
  /\ eval_stack_' = <<>> /\ eval_consts_' = <<>> /\ symbol_table_' = EmptyMap
  /\ result' = NoResult
  /\ ip' = 0
  /\ UNCHANGED <<func_type, call_args>>

(***************************************************************************)
(* Inputs                                                                  *)
(***************************************************************************)
ADD == <<"a", "d", "d">>
SUB == <<"s", "u", "b">>

\* the two programs of ShortTest and ShortTestExample, and that of ShortTestCompileBackToBack
SrcShortTest ==
  <<"(", "a", "d", "d", " ", "2", " ", "(", "s", "u", "b", " ", "4", " ", "2", ")", ")", ";">>
SrcExample ==
  <<"(", "a", "d", "d", " ", "(", "s", "u", "b", " ", "4", " ", "3", ")", " ", "2", ")", ";">>
SrcBackToBack ==
  <<"d", "e", "f", " ", "x", " ", "2", ";", " ", "(", "a", "d", "d", " ", "x", " ", "5", ")", ";">>
SrcAssign == <<"d", "e", "f", " ", "x", " ", "2", ";">>

\* Well-formed add/sub expressions over integer literals, each with its value:
\* forms over literals, and forms with one operand nested once or twice.
Lit(src, val) == [src |-> src, val |-> val]
AddSubLits == {Lit(<<"2">>, 2), Lit(<<"3">>, 3), Lit(<<"4">>, 4)}
OpForm(name, a, b) ==
  [src |-> <<"(">> \o name \o <<" ">> \o a.src \o <<" ">> \o b.src \o <<")">>,
   val |-> IF name = ADD THEN a.val + b.val ELSE a.val - b.val]
AddSubForms1 == {OpForm(n, a, b) : n \in {ADD, SUB}, a \in AddSubLits, b \in AddSubLits}
AddSubForms2 ==
  AddSubForms1
    \cup {OpForm(ADD, Lit(<<"2">>, 2), OpForm(SUB, Lit(<<"4">>, 4), Lit(<<"2">>, 2))),
          OpForm(ADD, OpForm(SUB, Lit(<<"4">>, 4), Lit(<<"3">>, 3)), Lit(<<"2">>, 2)),
          OpForm(SUB, OpForm(SUB, Lit(<<"2">>, 2), Lit(<<"4">>, 4)),
                      OpForm(ADD, Lit(<<"3">>, 3), Lit(<<"4">>, 4))),
          OpForm(SUB, Lit(<<"2">>, 2),
                      OpForm(ADD, OpForm(SUB, Lit(<<"3">>, 3), Lit(<<"4">>, 4)), Lit(<<"4">>, 4)))}
\* the statements: the expression and its terminator
AddSubStmts == {[src |-> e.src \o <<";">>, val |-> e.val] : e \in AddSubForms2}

\* Programs of def statements followed by one expression statement reading v:
\* defs is a sequence of <<name, literal>>; the value read is that of the last def of v.
DefNames == {<<"x">>, <<"y">>}
DefLits  == {Lit(<<"2">>, 2), Lit(<<"7">>, 7)}
DefSeqs  == {d \in UNION {[1..n -> DefNames \X DefLits] : n \in 1..2} : d[1][2].val = 2}
RECURSIVE DefsSrc(_, _)
DefsSrc(defs, i) ==
  IF i > Len(defs) THEN <<>>
  ELSE <<"d", "e", "f", " ">> \o defs[i][1] \o <<" ">> \o defs[i][2].src \o <<";", " ">>
       \o DefsSrc(defs, i + 1)
LastDef(defs, v) ==
  LET is == {i \in 1..Len(defs) : defs[i][1] = v} IN
  defs[CHOOSE i \in is : \A j \in is : j <= i][2].val
DefPrograms ==
  {[src |-> DefsSrc(d, 1) \o <<"(", "a", "d", "d", " ">> \o v \o <<" ", "5", ")", ";">>,
    val |-> LastDef(d, v) + 5] : <<d, v>> \in {<<d, v>> \in DefSeqs \X DefNames :
                                                  \E i \in 1..Len(d) : d[i][1] = v}}
   \cup
  {[src |-> DefsSrc(d, 1) \o v \o <<";">>, val |-> LastDef(d, v)] :
     <<d, v>> \in {<<d, v>> \in DefSeqs \X DefNames : \E i \in 1..Len(d) : d[i][1] = v}}

\* the texts given to Compiler::Lex on its own
StageInputs ==
  {<<>>, <<" ">>, <<"1">>, <<"x">>, <<"(">>, <<"#">>, <<";">>, <<"\n">>, <<"\"">>,
   <<"\"", "s", "\"">>, <<"(", "x", ")">>, SrcAssign, SrcShortTest}

\* the texts given to ResetAndCompile
CompileInputs ==
  {p.src : p \in AddSubStmts} \cup {p.src : p \in DefPrograms} \cup StageInputs
    \cup {SrcShortTest, SrcExample, SrcBackToBack}

(***************************************************************************)
(* Spec: one Compiler instance at a time, used through its public methods  *)
(***************************************************************************)
Init ==
  /\ pc = IDLE
  /\ input = <<>>
  /\ call = "Compiler"
  /\ FreshCompiler

Next ==
  \/ \E s \in StageInputs : Lex(s)
  \/ Parse
  \/ GenerateByteCode
  \/ EvaluateByteCode
  \/ \E s \in CompileInputs : ResetAndCompile(s)
  \/ NewCompiler

Spec == Init /\ [][Next]_vars

(***************************************************************************)
(* SpecLex: ReadTokens called once on a text, with an empty result vector  *)
(***************************************************************************)
MaxSrcLen == 4
LexAlphabet == {"(", ")", "\"", " ", "\n", "1", "a", ";", "#"}
LexInputs ==
  UNION {[1..n -> LexAlphabet] : n \in 0..MaxSrcLen}
    \cup {SrcShortTest, SrcExample, SrcBackToBack, SrcAssign}

InitLex ==
  /\ pc = START
  /\ input \in LexInputs
  /\ call = "none"
  /\ FreshCompiler

ReadTokensCall ==
  /\ pc = START
  /\ \E o \in LexOutcomes(input, tokens_) :
       /\ pc' = o.pc
       /\ lex_status' = o.status
       /\ tokens_' = o.tokens
  /\ call' = "ReadTokens"
  /\ UNCHANGED <<input, module_ptr_, parse_status, byte_code_, constants_, symbols_, lowered,
                 eval_stack_, eval_consts_, symbol_table_, result, ip, func_type, call_args>>

NextLex == ReadTokensCall

SpecLex == InitLex /\ [][NextLex]_vars

(***************************************************************************)
(* The lexemes of a text, as the lexical grammar states them: one          *)
(* <<kind, chars>> per lexeme, in source order.                            *)
(***************************************************************************)
\* the index after the maximal run of characters of S that starts at i
RunEnd(in, i, S) ==
  CHOOSE j \in i..(Len(in) + 1) :
    /\ \A k \in i..(j - 1) : in[k] \in S
    /\ (j > Len(in) \/ in[j] \notin S)

\* the index of the first quote at or after i, Len + 1 if there is none
QuoteAt(in, i) == RunEnd(in, i, Chars \ {"\""})

RECURSIVE Lexemes(_, _)
Lexemes(in, i) ==
  IF i > Len(in) THEN <<>>
  ELSE LET c == in[i] IN
    CASE c = "("  -> <<<<TOK_LPAR, <<"(">>>>>> \o Lexemes(in, i + 1)
      [] c = ")"  -> <<<<TOK_RPAR, <<")">>>>>> \o Lexemes(in, i + 1)
      [] c = ";"  -> <<<<TOK_SEMICOL, <<";">>>>>> \o Lexemes(in, i + 1)
      [] c = "\"" -> LET q == QuoteAt(in, i + 1) IN
                     <<<<TOK_STR, SubSeq(in, i + 1, q - 1)>>>> \o Lexemes(in, q + 1)
      [] c \in DigitChars ->
           LET j == RunEnd(in, i, DigitChars) IN
           <<<<TOK_INT, SubSeq(in, i, j - 1)>>>> \o Lexemes(in, j)
      [] c \in AlphaChars ->
           LET j == RunEnd(in, i, AlphaChars)
               w == SubSeq(in, i, j - 1)
           IN <<<<IF w = <<"d", "e", "f">> THEN TOK_DEF ELSE TOK_ID, w>>>> \o Lexemes(in, j)
      [] OTHER -> Lexemes(in, i + 1)

\* a single-line text of the characters the lexical grammar names, every string closed
LexicalText(in) ==
  /\ \A i \in 1..Len(in) :
       in[i] \in ({"(", ")", ";", "\""} \cup DigitChars \cup AlphaChars \cup SpaceChars) \ {"\n"}
  /\ Cardinality({i \in 1..Len(in) : in[i] = "\""}) % 2 = 0

TokensAre(toks, lexemes) ==
  /\ Len(toks) = Len(lexemes)
  /\ \A i \in 1..Len(toks) : toks[i].kind = lexemes[i][1] /\ toks[i].chars = lexemes[i][2]

\* C3: ReadTokens on a single-line text of parens, digits, letters, semicolons,
\* closed strings and whitespace succeeds and appends exactly the text's lexemes in
\* source order (SEMICOL for each semicolon).
C3_LexemesTokenized ==
  (pc # START /\ call = "ReadTokens" /\ LexicalText(input)) =>
     /\ pc = RETURNED
     /\ lex_status.kind_ = LEX_SUCCESS
     /\ TokensAre(tokens_, Lexemes(input, 1))

\* C4: when ReadTokens fails, it stopped at the character it reports: the failure
\* location is that character's zero-indexed (row, column), the character starts no
\* token, the tokens are those of the text before it, and getFailingCharacter
\* equals that character.
C4_FailureReportsCharacter ==
  (pc = RETURNED /\ call = "ReadTokens" /\ lex_status.kind_ = LEX_FAIL) =>
     LET loc == getFailingLocation(lex_status)
         c   == CharAt(input, loc.col)
     IN /\ loc.row = 0 /\ loc.col < Len(input)
        /\ tokens_ = ReadTokens(SubSeq(input, 1, loc.col), <<>>).tokens
        /\ getFailingCharacter(lex_status) = Ord(c)

\* C14: ReadTokens terminates on every finite input: the call returns with success
\* or failure, it is not caught in its loop (as when a turn lowers the read index),
\* and the read index never exceeds the length of the input.
C14_LexTerminates ==
  (pc # START /\ call = "ReadTokens") =>
     /\ pc = RETURNED
     /\ ReadTokens(input, <<>>).status.kind_ \in {LEX_SUCCESS, LEX_FAIL}
     /\ ReadTokens(input, <<>>).current <= Len(input)

\* The tokens of a text from index i at (row, col), each with the location of its
\* first character: a newline starts the next row at column 0 and the scan goes
\* on behind it, any other whitespace is one column, a string its length and two
\* quotes.  The tokens end at a character that starts no token.
RECURSIVE LocatedTokens(_, _, _, _)
LocatedString(in, i, row, col, q) ==
  <<Token(TOK_STR, SourceLocation(row, col), SubSeq(in, i + 1, q - 1))>>
    \o LocatedTokens(in, q + 1, row, col + (q - i) + 1)
LocatedRun(in, i, row, col, j, kind) ==
  <<Token(IF kind = TOK_ID /\ SubSeq(in, i, j - 1) = <<"d", "e", "f">> THEN TOK_DEF ELSE kind,
          SourceLocation(row, col), SubSeq(in, i, j - 1))>>
    \o LocatedTokens(in, j, row, col + (j - i))
LocatedTokens(in, i, row, col) ==
  IF i > Len(in) THEN <<>>
  ELSE CASE in[i] = "("  -> <<Token(TOK_LPAR, SourceLocation(row, col), <<"(">>)>>
                              \o LocatedTokens(in, i + 1, row, col + 1)
         [] in[i] = ")"  -> <<Token(TOK_RPAR, SourceLocation(row, col), <<")">>)>>
                              \o LocatedTokens(in, i + 1, row, col + 1)
         [] in[i] = "\"" -> LocatedString(in, i, row, col, QuoteAt(in, i + 1))
         [] in[i] = "\n" -> LocatedTokens(in, i + 1, row + 1, 0)
         [] in[i] \in SpaceChars \ {"\n"} -> LocatedTokens(in, i + 1, row, col + 1)
         [] in[i] \in DigitChars -> LocatedRun(in, i, row, col, RunEnd(in, i, DigitChars), TOK_INT)
         [] in[i] \in AlphaChars -> LocatedRun(in, i, row, col, RunEnd(in, i, AlphaChars), TOK_ID)
         [] OTHER -> <<>>

\* C15: every token ReadTokens produces carries the zero-indexed (row, column) of
\* its first character: the tokens appended are the first tokens of the text with
\* their locations (texts whose strings are closed).
C15_TokenLocations ==
  (pc \in {RETURNED, HUNG} /\ call = "ReadTokens"
     /\ Cardinality({i \in 1..Len(input) : input[i] = "\""}) % 2 = 0) =>
     /\ Len(tokens_) <= Len(LocatedTokens(input, 1, 0, 0))
     /\ \A k \in 1..Len(tokens_) : TokenEq(tokens_[k], LocatedTokens(input, 1, 0, 0)[k])
          /\ tokens_[k].loc = LocatedTokens(input, 1, 0, 0)[k].loc

(***************************************************************************)
(* SpecParse: ReadModule called once on a token vector, as ShortTest does  *)
(***************************************************************************)
MaxToks == 4

tLPAR == TokenNoLoc(TOK_LPAR, <<"(">>)
tRPAR == TokenNoLoc(TOK_RPAR, <<")">>)
tSEMI == TokenNoLoc(TOK_SEMICOL, <<";">>)
tDEF  == TokenNoLoc(TOK_DEF, <<"d", "e", "f">>)
tADD  == TokenNoLoc(TOK_ID, ADD)
tSUB  == TokenNoLoc(TOK_ID, SUB)
tF    == TokenNoLoc(TOK_ID, <<"f">>)
tX    == TokenNoLoc(TOK_ID, <<"x">>)
tSTR  == TokenNoLoc(TOK_STR, <<"s">>)
tINT(d) == TokenNoLoc(TOK_INT, <<d>>)

ParseAlphabet == {tLPAR, tRPAR, tSEMI, tDEF, tADD, tF, tINT("2")}

\* Well-formed expressions of the grammar, each with the AST the grammar gives it
Expr(toks, ast) == [toks |-> toks, ast |-> ast]
BinKind(op) == IF op = tADD THEN BINOP_ADD ELSE BINOP_SUB
BinFormExpr(op, a, b) ==
  Expr(<<tLPAR, op>> \o a.toks \o b.toks \o <<tRPAR>>, BinOpNode(BinKind(op), a.ast, b.ast))
ExprInt2 == Expr(<<tINT("2")>>, IntNode(2))
ExprInt4 == Expr(<<tINT("4")>>, IntNode(4))
ExprX    == Expr(<<tX>>, IDNode(<<"x">>))
ExprStr  == Expr(<<tSTR>>, StrNode(<<"s">>))
Exprs0 == {ExprInt2, ExprX, ExprStr}
Exprs1 ==
  {BinFormExpr(op, a, b) : op \in {tADD, tSUB}, a \in {ExprInt2, ExprX}, b \in {ExprInt2, ExprX}}
    \cup {Expr(<<tLPAR, tF, tINT("2"), tRPAR>>, CallNode(IDNode(<<"f">>), <<IntNode(2)>>)),
          Expr(<<tLPAR, tF, tRPAR>>, CallNode(IDNode(<<"f">>), <<>>)),
          Expr(<<tDEF, tX, tINT("2")>>, AssignNode(IDNode(<<"x">>), IntNode(2))),
          BinFormExpr(tSUB, ExprInt4, ExprInt2)}
Exprs == Exprs0 \cup Exprs1

\* ( op e1 e2 ) ; with the Module the grammar gives it
BinStmt(op, a, b) ==
  Expr(BinFormExpr(op, a, b).toks \o <<tSEMI>>,
       ModuleNode(<<StmtNode(BinFormExpr(op, a, b).ast)>>))
BinStmts == {BinStmt(op, a, b) : op \in {tADD, tSUB}, a \in Exprs, b \in Exprs}

\* ( op e1 e2 e3 ... ) : an add/sub form with three or four operands
TooManyForms ==
  {<<tLPAR, op>> \o a.toks \o b.toks \o c.toks \o d \o <<tRPAR>> :
     op \in {tADD, tSUB}, a \in Exprs, b \in Exprs0, c \in Exprs,
     d \in {<<>>, <<tINT("2")>>}}
\* the statements that hold such a form: alone, as a call argument, as an operand
TooManyStmts ==
  {f \o <<tSEMI>> : f \in TooManyForms}
    \cup {<<tLPAR, tF>> \o f \o <<tRPAR, tSEMI>> : f \in TooManyForms}
    \cup {<<tLPAR, tADD, tINT("2")>> \o f \o <<tRPAR, tSEMI>> : f \in TooManyForms}

\* ( op ) ; and ( op e ) ; : an add/sub form closed behind no or one operand
FewOperandStmts ==
  {<<tLPAR, op>> \o a \o <<tRPAR, tSEMI>> :
     op \in {tADD, tSUB}, a \in {<<>>, <<tINT("2")>>, <<tLPAR, tF, tRPAR>>}}

ParseInputs ==
  UNION {[1..n -> ParseAlphabet] : n \in 0..MaxToks}
    \cup {e.toks : e \in BinStmts} \cup TooManyStmts \cup FewOperandStmts

InitParse ==
  /\ pc = START
  /\ input = <<>>
  /\ call = "none"
  /\ tokens_ \in ParseInputs
  /\ lex_status = Null
  /\ module_ptr_ = Null /\ parse_status = Null
  /\ byte_code_ = <<>> /\ constants_ = <<>> /\ symbols_ = EmptyMap /\ lowered = <<>>
  /\ eval_stack_ = <<>> /\ eval_consts_ = <<>> /\ symbol_table_ = EmptyMap
  /\ result = NoResult
  /\ ip = 0
  /\ func_type = Null /\ call_args = <<>>

ReadModuleCall ==
  /\ pc = START
  /\ \E o \in ParseOutcomes(tokens_, module_ptr_) :
       /\ pc' = o.pc
       /\ parse_status' = o.status
       /\ module_ptr_' = o.module
  /\ call' = "ReadModule"
  /\ UNCHANGED <<input, tokens_, lex_status, byte_code_, constants_, symbols_, lowered,
                 eval_stack_, eval_consts_, symbol_table_, result, ip, func_type, call_args>>

NextParse == ReadModuleCall

SpecParse == InitParse /\ [][NextParse]_vars

\* the tokens and the Module of ShortTest: (add 2 (sub 4 2));
ShortTestStmt == BinStmt(tADD, ExprInt2, BinFormExpr(tSUB, ExprInt4, ExprInt2))

\* C5: for every token sequence ( op e1 e2 ) ; with op add or sub and e1, e2
\* well-formed expressions, ReadModule succeeds and returns the Module of one
\* Statement that wraps BinaryOp(op, AST(e1), AST(e2)), operands in source order.
C5_BinOpParsed ==
  (pc # START /\ call = "ReadModule") =>
     \A f \in BinStmts :
        f.toks = tokens_ =>
          /\ pc = RETURNED
          /\ parse_status.kind_ = PARSE_SUCCESS
          /\ ~parse_status.oob
          /\ module_ptr_ = f.ast

C5_Witness ==
  /\ pc = RETURNED /\ call = "ReadModule"
  /\ tokens_ = ShortTestStmt.toks
  /\ module_ptr_ =
       ModuleNode(<<StmtNode(BinOpNode(BINOP_ADD, IntNode(2),
                                       BinOpNode(BINOP_SUB, IntNode(4), IntNode(2))))>>)

\* some left paren is not closed before the input ends or the statement's
\* semicolon comes, and no right paren before that point is unmatched
RECURSIVE UnclosedFrom(_, _, _)
UnclosedFrom(toks, i, depth) ==
  IF i > Len(toks) THEN depth > 0
  ELSE CASE toks[i].kind = TOK_LPAR    -> UnclosedFrom(toks, i + 1, depth + 1)
         [] toks[i].kind = TOK_RPAR    -> depth > 0 /\ UnclosedFrom(toks, i + 1, depth - 1)
         [] toks[i].kind = TOK_SEMICOL -> depth > 0 \/ UnclosedFrom(toks, i + 1, 0)
         [] OTHER                      -> UnclosedFrom(toks, i + 1, depth)
HasUnclosedLPar(toks) == UnclosedFrom(toks, 1, 0)

\* C6: for every token sequence in which some left paren is never closed, ReadModule
\* fails with PARSE_FAIL_NO_RPAR: it neither succeeds nor fails with another kind.
C6_UnclosedIsNoRPar ==
  (pc # START /\ call = "ReadModule" /\ HasUnclosedLPar(tokens_)) =>
     (pc = RETURNED /\ parse_status.kind_ = PARSE_FAIL_NO_RPAR)

\* C7: every add/sub form with three or more operand expressions before its right
\* paren fails parsing with PARSE_FAIL_TOO_MANY_BINOP_OPERANDS, and no node is
\* returned for it.
C7_TooManyOperands ==
  (pc # START /\ call = "ReadModule" /\ tokens_ \in TooManyStmts) =>
     /\ pc = RETURNED
     /\ parse_status.kind_ = PARSE_FAIL_TOO_MANY_BINOP_OPERANDS
     /\ module_ptr_ = Null

\* (add 2 2 2); was parsed
C7_Witness ==
  /\ pc = RETURNED /\ call = "ReadModule"
  /\ tokens_ = <<tLPAR, tADD, tINT("2"), tINT("2"), tINT("2"), tRPAR, tSEMI>>
  /\ parse_status.kind_ = PARSE_FAIL_TOO_MANY_BINOP_OPERANDS

\* C8: for every finite token sequence ReadModule returns success or one of the
\* parse failure kinds; it reaches no abort and never indexes the token vector at
\* an index >= its length.
C8_ParseAlwaysReturns ==
  (pc # START /\ call = "ReadModule") =>
     /\ pc = RETURNED
     /\ parse_status.kind_ \in ParseKinds
     /\ ~parse_status.oob

\* the left parens among the first n tokens that no right paren among them closes
RECURSIVE UnclosedLPars(_, _)
UnclosedLPars(toks, n) ==
  IF n = 0 THEN 0
  ELSE IF toks[n].kind = TOK_LPAR THEN UnclosedLPars(toks, n - 1) + 1
  ELSE IF toks[n].kind = TOK_RPAR /\ UnclosedLPars(toks, n - 1) > 0
  THEN UnclosedLPars(toks, n - 1) - 1
  ELSE UnclosedLPars(toks, n - 1)

\* C24: ReadModule reports PARSE_FAIL_NO_LPAR only at a right paren that has no
\* unclosed left paren before it; an add/sub form that is closed behind fewer
\* than two operands, as (add 2); and (sub);, fails with the kind of the wrong
\* number of operands of a binary operator, not with PARSE_FAIL_NO_LPAR.
C24_NoLParOnlyWhenUnmatched ==
  (pc = RETURNED /\ call = "ReadModule") =>
     /\ parse_status.kind_ = PARSE_FAIL_NO_LPAR =>
          \A g \in ParseUB :
             ReadModule(tokens_, g).kind = PARSE_FAIL_NO_LPAR =>
               /\ tokens_[ReadModule(tokens_, g).cur + 1].kind = TOK_RPAR
               /\ UnclosedLPars(tokens_, ReadModule(tokens_, g).cur) = 0
     /\ tokens_ \in FewOperandStmts =>
          parse_status.kind_ = PARSE_FAIL_TOO_MANY_BINOP_OPERANDS

(***************************************************************************)
(* SpecEmit: one ByteCodeEmitter; nodes are handed to ConvertToByteCode    *)
(* one after the other, and ResetComponents is called in between           *)
(***************************************************************************)
DefX2  == AssignNode(IDNode(<<"x">>), IntNode(2))
DefX7  == AssignNode(IDNode(<<"x">>), IntNode(7))
DefY7  == AssignNode(IDNode(<<"y">>), IntNode(7))
AddX5  == BinOpNode(BINOP_ADD, IDNode(<<"x">>), IntNode(5))
CallAddX5 == CallNode(IDNode(ADD), <<IDNode(<<"x">>), IntNode(5)>>)
CallF2 == CallNode(IDNode(<<"f">>), <<IntNode(2)>>)
DefYX  == AssignNode(IDNode(<<"y">>), IDNode(<<"x">>))
AddSub242 == BinOpNode(BINOP_ADD, IntNode(2), BinOpNode(BINOP_SUB, IntNode(4), IntNode(2)))

EmitNodes ==
  {DefX2, DefX7, DefY7,
   AssignNode(IDNode(<<"y">>), DefX2),
   IntNode(2), StrNode(<<"s">>), IDNode(<<"x">>), CallAddX5, CallF2, DefYX,
   ModuleNode(<<DefX2, CallAddX5>>),
   ModuleNode(<<DefY7, DefX2, DefX7>>),
   StmtNode(DefY7),
   ModuleNode(<<StmtNode(DefX2)>>),
   ModuleNode(<<StmtNode(DefX2), StmtNode(AddX5)>>),
   ModuleNode(<<StmtNode(AddSub242)>>),
   ModuleNode(<<StmtNode(IntNode(2)), StmtNode(AddSub242)>>)}

InitEmit ==
  /\ pc = IDLE
  /\ input = <<>>
  /\ call = "ByteCodeEmitter"
  /\ FreshCompiler
  /\ lowered = <<>>

\* emitter.ConvertToByteCode(node)
ConvertToByteCodeCall(node) ==
  /\ Alive
  /\ Len(lowered) < MaxLowered
  /\ \E e \in {ConvertToByteCode(node, Emitter(byte_code_, constants_, symbols_), u)
               : u \in UBChoices} :
       /\ pc' = IF e.fatal = NONE THEN RETURNED ELSE FatalPc(e.fatal)
       /\ byte_code_' = e.byte_code_
       /\ constants_' = e.constants_
       /\ symbols_' = e.symbols_
  /\ lowered' = Append(lowered, node)
  /\ call' = "ConvertToByteCode"
  /\ UNCHANGED <<input, tokens_, lex_status, module_ptr_, parse_status,
                 eval_stack_, eval_consts_, symbol_table_, result, ip, func_type, call_args>>

\* emitter.ResetComponents()
ResetComponentsCall ==
  /\ Alive
  /\ lowered # <<>>
  /\ LET e == EmitterResetComponents(Emitter(byte_code_, constants_, symbols_)) IN
       /\ byte_code_' = e.byte_code_
       /\ constants_' = e.constants_
       /\ symbols_' = e.symbols_
  /\ lowered' = <<>>
  /\ pc' = RETURNED
  /\ call' = "ResetComponents"
  /\ UNCHANGED <<input, tokens_, lex_status, module_ptr_, parse_status,
                 eval_stack_, eval_consts_, symbol_table_, result, ip, func_type, call_args>>

NextEmit ==
  \/ \E node \in EmitNodes : ConvertToByteCodeCall(node)
  \/ ResetComponentsCall

SpecEmit == InitEmit /\ [][NextEmit]_vars

\* The names that appear as the destination of an assignment in a node, in the
\* order in which lowering meets them
RECURSIVE DstsOf(_)
RECURSIVE DstsOfSeq(_, _)
DstsOfSeq(nodes, i) ==
  IF i > Len(nodes) THEN <<>> ELSE DstsOf(nodes[i]) \o DstsOfSeq(nodes, i + 1)
DstsOf(node) ==
  CASE node.kind = NODE_MODULE -> DstsOfSeq(node.nodes, 1)
    [] node.kind = NODE_STMT   -> DstsOf(node.inner)
    [] node.kind = NODE_BINOP  -> DstsOf(node.lhs) \o DstsOf(node.rhs)
    [] node.kind = NODE_CALL   -> DstsOfSeq(node.args, 1) \o DstsOf(node.func)
    [] node.kind = NODE_ASSIGN ->
         (IF node.dst.kind = NODE_ID THEN <<node.dst.name>> ELSE <<>>)
           \o DstsOf(node.dst) \o DstsOf(node.src)
    [] OTHER -> <<>>

\* a sequence of names without its repetitions, first appearances kept in order
RECURSIVE FirstSeen(_, _, _)
FirstSeen(names, i, acc) ==
  IF i > Len(names) THEN acc
  ELSE FirstSeen(names, i + 1,
                 IF \E k \in 1..Len(acc) : acc[k] = names[i] THEN acc ELSE Append(acc, names[i]))

\* the table that gives every name of a duplicate-free sequence its position, from 0
IdsInOrder(names) ==
  [n \in {names[k] : k \in 1..Len(names)} |-> (CHOOSE k \in 1..Len(names) : names[k] = n) - 1]

\* C10: after lowering any sequence of nodes since the last reset, the symbol
\* table maps the names that appeared as assignment destinations, and only
\* those, to the ids 0..n-1 in the order of their first appearance: injective,
\* dense, one id per name (one id for x after def x 2; (add x 5);).
C10_SymbolIdsDenseFirstSeen ==
  (pc = RETURNED /\ call \in {"ConvertToByteCode", "ResetComponents"}) =>
     symbols_ = IdsInOrder(FirstSeen(DstsOfSeq(lowered, 1), 1, <<>>))

\* The bytecode of a node as the language description gives it, ids the table of
\* symbol ids: a literal is pushed, an identifier that is read is loaded, a binary
\* operation is its left operand, its right operand, its instruction, an
\* assignment is the push of the destination's id, the source, the store.
RECURSIVE CodeOf(_, _)
RECURSIVE CodeOfSeq(_, _, _)
CodeOfSeq(nodes, i, ids) ==
  IF i > Len(nodes) THEN <<>> ELSE CodeOf(nodes[i], ids) \o CodeOfSeq(nodes, i + 1, ids)
CodeOf(node, ids) ==
  CASE node.kind = NODE_MODULE -> CodeOfSeq(node.nodes, 1, ids)
    [] node.kind = NODE_STMT   -> CodeOf(node.inner, ids)
    [] node.kind = NODE_INT    -> <<INSTR_PUSH, node.val>>
    [] node.kind = NODE_ID     -> <<INSTR_LOAD, ids[node.name]>>
    [] node.kind = NODE_BINOP  ->
         CodeOf(node.lhs, ids) \o CodeOf(node.rhs, ids)
           \o <<IF node.op = BINOP_ADD THEN INSTR_ADD_OP ELSE INSTR_SUB_OP>>
    [] node.kind = NODE_ASSIGN ->
         <<INSTR_PUSH, ids[node.dst.name]>> \o CodeOf(node.src, ids) \o <<INSTR_STORE>>

\* def x E with a bare identifier x: the Assign node, and the node of the statement def x E;
AssignOf(node) ==
  CASE node.kind = NODE_ASSIGN -> node
    [] node.kind = NODE_STMT   -> node.inner
    [] node.kind = NODE_MODULE -> node.nodes[1].inner
AssignForms ==
  {DefX2, DefX7, DefY7, AssignNode(IDNode(<<"y">>), DefX2),
   StmtNode(DefY7), ModuleNode(<<StmtNode(DefX2)>>)}

\* C11: lowering an assignment def x E with a bare identifier x registers x if it
\* is not registered yet (no other id changes) and appends exactly push id(x),
\* the code of E, store; def x 2; on a new emitter gives push id(x), push 2, store
\* and a symbol table of size 1.
C11_AssignLowering ==
  [][\A n \in AssignForms :
       lowered' = Append(lowered, n) =>
         /\ pc' = RETURNED
         /\ AssignOf(n).dst.name \in DOMAIN symbols_'
         /\ \A v \in DOMAIN symbols_ : v \in DOMAIN symbols_' /\ symbols_'[v] = symbols_[v]
         /\ \A v \in DOMAIN symbols_' \ DOMAIN symbols_ :
              \E k \in 1..Len(DstsOf(n)) : DstsOf(n)[k] = v
         /\ byte_code_' = byte_code_ \o CodeOf(AssignOf(n), symbols_')]_vars

\* The nodes in which lowering meets the identifier name in a position where it
\* is read: alone, as an operand, as the callee of a call, as the source of an
\* assignment.  before is what is lowered ahead of it, dsts the names registered
\* ahead of it.
UnregisteredCase(node, name, before, dsts) ==
  [node |-> node, name |-> name, before |-> before, dsts |-> dsts]
UnregisteredCases ==
  {UnregisteredCase(IDNode(<<"x">>), <<"x">>, <<>>, {}),
   UnregisteredCase(CallAddX5, <<"x">>, <<>>, {}),
   UnregisteredCase(CallF2, <<"f">>, <<IntNode(2)>>, {}),
   UnregisteredCase(DefYX, <<"x">>, <<>>, {<<"y">>})}

\* C12: lowering an identifier other than add and sub that is not registered when
\* it is lowered ends the emission in an error at that identifier: nothing is
\* appended for it (what was lowered ahead of it stays), and the name is neither
\* registered nor given an id.
C12_UnregisteredIsError ==
  [][\A c \in UnregisteredCases :
       (lowered' = Append(lowered, c.node) /\ c.name \notin DOMAIN symbols_) =>
         /\ pc' = ABORTED
         /\ c.name \notin DOMAIN symbols_'
         /\ DOMAIN symbols_' = DOMAIN symbols_ \cup c.dsts
         /\ \A v \in DOMAIN symbols_ : symbols_'[v] = symbols_[v]
         /\ byte_code_' = byte_code_
                            \o (IF c.dsts = {} THEN <<>> ELSE <<INSTR_PUSH, symbols_'[<<"y">>]>>)
                            \o CodeOfSeq(c.before, 1, symbols_')]_vars

\* after def x 2, the call (f 2) was lowered up to the callee f, which has no id
C12_Witness ==
  /\ pc = ABORTED /\ call = "ConvertToByteCode"
  /\ lowered = <<DefX2, CallF2>>
  /\ byte_code_ = <<INSTR_PUSH, 0, INSTR_PUSH, 2, INSTR_STORE, INSTR_PUSH, 2>>
  /\ DOMAIN symbols_ = {<<"x">>}

\* modules of statements whose expressions hold literals and binary operations only
StatementModules ==
  {ModuleNode(<<StmtNode(AddSub242)>>),
   ModuleNode(<<StmtNode(IntNode(2)), StmtNode(AddSub242)>>)}

\* C16: lowering a Module lowers the inner expression of each of its Statements in
\* order, a BinaryOp as left operand, right operand, then its instruction, and
\* leaves the constant pool as it was: (add 2 (sub 4 2)); on a new emitter gives
\* push 2, push 4, push 2, sub, add and an empty pool.
C16_ModuleStatementsPostOrder ==
  [][\A n \in StatementModules :
       lowered' = Append(lowered, n) =>
         /\ pc' = RETURNED
         /\ byte_code_' = byte_code_ \o CodeOf(n, symbols_')
         /\ constants_' = constants_
         /\ (byte_code_ = <<>> /\ n = ModuleNode(<<StmtNode(AddSub242)>>)) =>
              byte_code_' = <<INSTR_PUSH, 2, INSTR_PUSH, 4, INSTR_PUSH, 2,
                              INSTR_SUB_OP, INSTR_ADD_OP>>]_vars

\* the nodes in which the identifier x is read (alone, as the source of an
\* assignment, as an operand), with whether x has to be registered ahead of them
IdentifierReads ==
  {[node |-> IDNode(<<"x">>), needs |-> TRUE],
   [node |-> DefYX, needs |-> TRUE],
   [node |-> ModuleNode(<<StmtNode(DefX2), StmtNode(AddX5)>>), needs |-> FALSE]}

\* C17: an identifier that is read is lowered to load id, the destination of an
\* assignment to push id: def x 2; (add x 5); on a new emitter gives push id(x),
\* push 2, store, load id(x), push 5, add.
C17_ReadLoadsDestinationPushes ==
  [][\A c \in IdentifierReads :
       (lowered' = Append(lowered, c.node) /\ (c.needs => <<"x">> \in DOMAIN symbols_)) =>
         /\ pc' = RETURNED
         /\ <<"x">> \in DOMAIN symbols_'
         /\ byte_code_' = byte_code_ \o CodeOf(c.node, symbols_')
         /\ (byte_code_ = <<>> /\ ~c.needs) =>
              byte_code_' = <<INSTR_PUSH, 0, INSTR_PUSH, 2, INSTR_STORE,
                              INSTR_LOAD, 0, INSTR_PUSH, 5, INSTR_ADD_OP>>]_vars

(***************************************************************************)
(* SpecInterp: one emitter and one evaluator.  The instruction stream is   *)
(* what the emitter made of the nodes handed to it, or a stream a caller   *)
(* hands to Interpret as it is; a run is InitializeConstants,              *)
(* InitializeSymbolTable and Interpret, as Compiler::EvaluateByteCode and  *)
(* ShortTest do it, and Interpret is followed one turn of its loop at a    *)
(* time.                                                                   *)
(***************************************************************************)
\* the longest stream handed over as it is
MaxCodes == 4
\* the most values earlier runs may have left on the stack when a run starts
MaxPending == 1

CallSub42 == CallNode(IDNode(SUB), <<IntNode(4), IntNode(2)>>)
InterpNodes == {DefX2, DefY7, IntNode(2), CallAddX5, CallSub42, ModuleNode(<<DefX2, CallAddX5>>)}

\* a slot value that is no instruction
NoInstr == 7
CodeAlphabet ==
  {INSTR_PUSH, INSTR_ADD_OP, INSTR_SUB_OP, INSTR_CALL, INSTR_STORE, NoInstr}
RawStreams ==
  UNION {[1..n -> CodeAlphabet] : n \in 1..MaxCodes}
    \cup {<<INSTR_PUSH, 0, INSTR_PUSH, NoInstr, INSTR_STORE>>,
          <<INSTR_PUSH, 1, INSTR_PUSH, NoInstr, INSTR_STORE>>,
          <<INSTR_PUSH, 0, INSTR_PUSH, NoInstr, INSTR_STORE, INSTR_PUSH>>}
RawSymbols == {EmptyMap, IdsInOrder(<<<<"x">>>>), IdsInOrder(<<<<"x">>, <<"y">>>>)}

InitInterp ==
  /\ pc = IDLE
  /\ input = <<>>
  /\ call = "ByteCodeEvaluator"
  /\ FreshCompiler

\* the stream is the emitter's own
EmitterMade == byte_code_ = <<>> \/ lowered # <<>>

\* emitter.ConvertToByteCode(node), the stream being the emitter's
LowerNode(node) == EmitterMade /\ ConvertToByteCodeCall(node)

\* a caller builds the stream and the symbols itself
HandCodes ==
  /\ pc = IDLE /\ byte_code_ = <<>> /\ lowered = <<>>
  /\ \E codes \in RawStreams, syms \in RawSymbols :
       /\ byte_code_' = codes
       /\ symbols_' = syms
  /\ call' = "codes"
  /\ UNCHANGED <<pc, input, tokens_, lex_status, module_ptr_, parse_status, constants_,
                 lowered, eval_stack_, eval_consts_, symbol_table_, result, ip, func_type, call_args>>

\* InitializeConstants(constants), InitializeSymbolTable(symbols), and Interpret
\* up to its loop: i = 0
InterpretEnter ==
  /\ Alive
  /\ Len(eval_stack_) <= MaxPending
  /\ eval_consts_' = constants_
  /\ symbol_table_' = InitializeSymbolTable(symbol_table_, symbols_)
  /\ ip' = 0
  /\ pc' = RUNNING
  /\ call' = "Interpret"
  /\ UNCHANGED <<input, tokens_, lex_status, module_ptr_, parse_status, byte_code_,
                 constants_, symbols_, lowered, eval_stack_, result, func_type, call_args>>

\* the loop condition of Interpret, and one turn of the loop when it holds
InterpretTurnCall ==
  /\ pc = RUNNING
  /\ IF ~(ip < Len(byte_code_))
     THEN pc' = RETURNED /\ UNCHANGED <<eval_stack_, symbol_table_, ip>>
     ELSE \E r \in {InterpretTurn(byte_code_, ip, eval_stack_, symbol_table_, u)
                    : u \in UBChoices} :
            /\ pc' = CASE r.end = RUNNING -> RUNNING [] r.end = HANGS -> HUNG
                       [] r.end = CRASH -> CRASHED [] OTHER -> ABORTED
            /\ eval_stack_' = r.eval_stack_
            /\ symbol_table_' = r.symbol_table_
            /\ ip' = r.i
  /\ UNCHANGED <<input, tokens_, lex_status, module_ptr_, parse_status, byte_code_,
                 constants_, symbols_, lowered, eval_consts_, result, call, func_type, call_args>>

\* Compiler::ResetComponents on the emitter and the evaluator of a compiler
CompilerResetComponents ==
  /\ pc = RETURNED /\ EmitterMade /\ lowered # <<>>
  /\ LET e  == EmitterResetComponents(Emitter(byte_code_, constants_, symbols_))
         ev == EvaluatorResetComponents([eval_stack_ |-> eval_stack_, constants_ |-> eval_consts_,
                                         symbol_table_ |-> symbol_table_]) IN
       /\ byte_code_' = e.byte_code_
       /\ constants_' = e.constants_
       /\ symbols_' = e.symbols_
       /\ eval_stack_' = ev.eval_stack_
       /\ eval_consts_' = ev.constants_
       /\ symbol_table_' = ev.symbol_table_
  /\ lowered' = <<>>
  /\ call' = "ResetComponents"
  /\ UNCHANGED <<pc, input, tokens_, lex_status, module_ptr_, parse_status, result, ip, func_type, call_args>>

NextInterp ==
  \/ \E node \in InterpNodes : LowerNode(node)
  \/ HandCodes
  \/ InterpretEnter
  \/ InterpretTurnCall
  \/ CompilerResetComponents

SpecInterp == InitInterp /\ [][NextInterp]_vars

\* the instruction Interpret is about to execute, NoInstr when the loop has ended
Executing == IF ip < Len(byte_code_) THEN byte_code_[ip + 1] ELSE NoInstr

\* C13: Interpret ends in a fatal error and produces no result whenever add, sub
\* or store is executed with fewer than two values on the stack (nothing is
\* popped), whenever the destination id of a store is no key of the symbol store
\* (the store stays as it is), and whenever a call instruction is reached.
C13_FatalErrors ==
  [][pc = RUNNING =>
       /\ (Executing \in {INSTR_ADD_OP, INSTR_SUB_OP, INSTR_STORE} /\ Len(eval_stack_) < 2) =>
            (pc' = ABORTED /\ eval_stack_' = eval_stack_ /\ symbol_table_' = symbol_table_
               /\ result' = NoResult)
       /\ (Executing = INSTR_STORE /\ Len(eval_stack_) >= 2
             /\ eval_stack_[Len(eval_stack_) - 1] \notin DOMAIN symbol_table_) =>
            (pc' = ABORTED /\ symbol_table_' = symbol_table_ /\ result' = NoResult)
       /\ Executing = INSTR_CALL =>
            (pc' = ABORTED /\ eval_stack_' = eval_stack_ /\ symbol_table_' = symbol_table_
               /\ result' = NoResult)]_vars

\* push 1, push 7, store ended at the store: the symbol store has the key 0 only
C13_Witness ==
  /\ pc = ABORTED /\ call = "Interpret"
  /\ byte_code_ = <<INSTR_PUSH, 1, INSTR_PUSH, NoInstr, INSTR_STORE>>
  /\ ip = 4
  /\ DOMAIN symbol_table_ = {0}

\* the slots of a stream that hold an instruction, walking from slot i: the slot
\* behind a push holds its operand
RECURSIVE OpcodeSlots(_, _)
OpcodeSlots(codes, i) ==
  IF ~(i < Len(codes)) THEN {}
  ELSE {i} \cup OpcodeSlots(codes, IF codes[i + 1] = INSTR_PUSH THEN i + 2 ELSE i + 1)

\* C18: on a stream the emitter produced, every turn of Interpret executes one of
\* the instructions and either stops in a fatal error or moves the instruction
\* pointer forward, by 2 behind a push and by 1 otherwise, onto a slot that holds
\* an instruction or onto the end; the run ends normally with the pointer equal to
\* the length of the stream, and never hangs or faults.
C18_PointerAdvances ==
  [][(pc = RUNNING /\ EmitterMade) =>
       /\ ip <= Len(byte_code_)
       /\ ip \in OpcodeSlots(byte_code_, 0) \cup {Len(byte_code_)}
       /\ ~(ip < Len(byte_code_)) => (pc' = RETURNED /\ ip' = Len(byte_code_))
       /\ ip < Len(byte_code_) =>
            /\ Executing \in {INSTR_PUSH, INSTR_ADD_OP, INSTR_SUB_OP, INSTR_CALL, INSTR_STORE}
            /\ pc' \in {RUNNING, ABORTED}
            /\ pc' = RUNNING =>
                 /\ ip' = ip + (IF Executing = INSTR_PUSH THEN 2 ELSE 1)
                 /\ ip' \in OpcodeSlots(byte_code_, 0) \cup {Len(byte_code_)}]_vars

\* def x 2 and (sub 4 2) were lowered and run to the end of the ten slots
C18_Witness ==
  /\ pc = RETURNED /\ call = "Interpret"
  /\ lowered = <<DefX2, CallSub42>>
  /\ byte_code_ = <<INSTR_PUSH, 0, INSTR_PUSH, 2, INSTR_STORE,
                    INSTR_PUSH, 4, INSTR_PUSH, 2, INSTR_SUB_OP>>
  /\ ip = 10
  /\ eval_stack_ = <<2>>

\* C19: for any stream handed to Interpret, no slot at or behind the length of the
\* stream is read: a push in the last slot, which no operand follows, ends in a
\* fatal error with the stack and the pointer as they were.
C19_PushInLastSlotIsFatal ==
  [][(pc = RUNNING /\ Executing = INSTR_PUSH /\ ~(ip + 1 < Len(byte_code_))) =>
       (pc' = ABORTED /\ eval_stack_' = eval_stack_ /\ ip' = ip)]_vars

\* the runtime symbol store that holds 0 for every id of the emitter's table
ZeroStore(symbols) == [id \in {symbols[n] : n \in DOMAIN symbols} |-> 0]

\* C20: when a run is about to execute its first instruction the symbol store maps
\* every id of the emitter's symbol table to 0 and has no other key; no turn of
\* Interpret changes the key set; a store that is executed writes its value at its
\* destination id, leaves every other entry alone and leaves the stack as it was
\* below its two operands; no other instruction changes the symbol store.
C20_SymbolStoreFrame ==
  [][/\ (pc' = RUNNING /\ ip' = 0) => symbol_table_' = ZeroStore(symbols_')
     /\ pc = RUNNING =>
          /\ DOMAIN symbol_table_' = DOMAIN symbol_table_
          /\ (Executing = INSTR_STORE /\ pc' = RUNNING) =>
               /\ symbol_table_'[eval_stack_[Len(eval_stack_) - 1]] = eval_stack_[Len(eval_stack_)]
               /\ \A id \in DOMAIN symbol_table_ :
                    id # eval_stack_[Len(eval_stack_) - 1] => symbol_table_'[id] = symbol_table_[id]
               /\ eval_stack_' = SubSeq(eval_stack_, 1, Len(eval_stack_) - 2)
          /\ Executing # INSTR_STORE => symbol_table_' = symbol_table_]_vars

\* def x 2 and def y 7 were run to the end: the store of y left the entry of x
C20_Witness ==
  /\ pc = RETURNED /\ call = "Interpret"
  /\ lowered = <<DefX2, DefY7>>
  /\ ip = 10
  /\ DOMAIN symbol_table_ = {0, 1}
  /\ symbol_table_[0] = 2 /\ symbol_table_[1] = 7

(***************************************************************************)
(* SpecCheckArgs: one FunctionValue and one call of its CheckArgs          *)
(***************************************************************************)
\* the most argument types a function type declares, the longest vector handed over
MaxArity == 2
MaxArgs  == 3

ArgTypes ==
  {IntType, StrType, FuncType(IntType, <<>>), FuncType(IntType, <<IntType>>),
   FuncType(StrType, <<IntType>>)}
FuncTypes == {FuncType(IntType, ats) : ats \in UNION {[1..n -> ArgTypes] : n \in 0..MaxArity}}
ArgVectors == UNION {[1..n -> ArgTypes] : n \in 0..MaxArgs}

InitCheckArgs ==
  /\ pc = START
  /\ input = <<>>
  /\ call = "none"
  /\ tokens_ = <<>> /\ lex_status = Null
  /\ module_ptr_ = Null /\ parse_status = Null
  /\ byte_code_ = <<>> /\ constants_ = <<>> /\ symbols_ = EmptyMap /\ lowered = <<>>
  /\ eval_stack_ = <<>> /\ eval_consts_ = <<>> /\ symbol_table_ = EmptyMap
  /\ result = NoResult
  /\ ip = 0
  /\ func_type \in FuncTypes
  /\ call_args \in ArgVectors

\* value.CheckArgs(args)
CheckArgsCall ==
  /\ pc = START
  /\ pc' = IF CheckArgs(func_type, call_args) = NONE THEN RETURNED ELSE ABORTED
  /\ call' = "CheckArgs"
  /\ UNCHANGED <<input, tokens_, lex_status, module_ptr_, parse_status, byte_code_,
                 constants_, symbols_, lowered, eval_stack_, eval_consts_, symbol_table_,
                 result, ip, func_type, call_args>>

NextCheckArgs == CheckArgsCall

SpecCheckArgs == InitCheckArgs /\ [][NextCheckArgs]_vars

\* the trailing N elements of the vector match the N declared argument types, the
\* k-th declared type at the k-th of them: ..., arg1, arg2 with arg2 on top
TrailingArgsMatch(type, as) ==
  /\ Len(as) >= getNumArgs(type)
  /\ \A k \in 1..getNumArgs(type) :
       TypeEquals(type.arg_types_[k], as[Len(as) - getNumArgs(type) + k])

\* C21: CheckArgs(args) returns exactly when args holds at least N = arity
\* elements and, for every k in 1..N, the type of the k-th of the trailing N
\* elements equals the k-th declared argument type, whatever lies below them;
\* in every other case it ends in a fatal error.
C21_CheckArgsTrailingMatch ==
  (call = "CheckArgs") =>
     /\ pc \in {RETURNED, ABORTED}
     /\ pc = RETURNED <=> TrailingArgsMatch(func_type, call_args)

(***************************************************************************)
(* SpecInt: one integer literal token is read by ReadInt, and the Int node *)
(* it makes is lowered by a new emitter                                    *)
(***************************************************************************)
\* the longest run of the digits 0, 1, 2, 9 taken in full
MaxDigits == 3

\* 2^31 - 1, 2^31, 2^32, 2^32 + 2, 2^63 - 1, 2^63
LongLiterals ==
  {<<"2", "1", "4", "7", "4", "8", "3", "6", "4", "7">>,
   <<"2", "1", "4", "7", "4", "8", "3", "6", "4", "8">>,
   <<"4", "2", "9", "4", "9", "6", "7", "2", "9", "6">>,
   <<"4", "2", "9", "4", "9", "6", "7", "2", "9", "8">>,
   <<"9", "2", "2", "3", "3", "7", "2", "0", "3", "6", "8", "5", "4", "7", "7", "5", "8", "0", "7">>,
   <<"9", "2", "2", "3", "3", "7", "2", "0", "3", "6", "8", "5", "4", "7", "7", "5", "8", "0", "8">>}
IntLiterals ==
  UNION {[1..n -> {"0", "1", "2", "9"}] : n \in 1..MaxDigits} \cup LongLiterals

InitInt ==
  /\ pc = START
  /\ input = <<>>
  /\ call = "none"
  /\ \E chars \in IntLiterals : tokens_ = <<Token(TOK_INT, SourceLocation(0, 0), chars)>>
  /\ lex_status = Null
  /\ module_ptr_ = Null /\ parse_status = Null
  /\ byte_code_ = <<>> /\ constants_ = <<>> /\ symbols_ = EmptyMap /\ lowered = <<>>
  /\ eval_stack_ = <<>> /\ eval_consts_ = <<>> /\ symbol_table_ = EmptyMap
  /\ result = NoResult
  /\ ip = 0
  /\ func_type = Null /\ call_args = <<>>

\* ReadInt(tokens, current, &node) with current = 0; the node is kept in module_ptr_
ReadIntCall ==
  /\ pc = START
  /\ LET o == ParseOutcome(ReadInt(tokens_, 0), module_ptr_) IN
       /\ pc' = o.pc
       /\ parse_status' = o.status
       /\ module_ptr_' = o.module
  /\ call' = "ReadInt"
  /\ UNCHANGED <<input, tokens_, lex_status, byte_code_, constants_, symbols_, lowered,
                 eval_stack_, eval_consts_, symbol_table_, result, ip, func_type, call_args>>

\* emitter.ConvertToByteCode(node) for the node ReadInt made
LowerInt == call = "ReadInt" /\ pc = RETURNED /\ ConvertToByteCodeCall(module_ptr_)

NextInt ==
  \/ ReadIntCall
  \/ LowerInt

SpecInt == InitInt /\ [][NextInt]_vars

\* the four limbs of a value from 0 to 2^31 - 1
LimbsOf(v) == <<v % LimbBase, v \div LimbBase, 0, 0>>

\* C22: for every integer literal token the literal is read, and the operand slot
\* behind the push that is emitted for it holds the decimal value of the literal
\* as a 64-bit integer, without truncation to 32 bits from 2^31 on.
C22_LiteralValueExact ==
  /\ call = "ReadInt" => pc = RETURNED
  /\ call = "ConvertToByteCode" =>
       /\ Len(byte_code_) = 2 /\ byte_code_[1] = INSTR_PUSH
       /\ byte_code_[2] >= 0
       /\ LimbsOf(byte_code_[2]) = Stol(tokens_[1].chars).limbs

(***************************************************************************)
(* SpecRun: Compiler::Run behind the lexer, on a new Compiler whose        *)
(* tokens_ is a token vector: Parse, GenerateByteCode, EvaluateByteCode,   *)
(* and the getOnlyEvalResult of Compile                                    *)
(***************************************************************************)
InitRun == InitParse

\* assert(Parse().isSuccessful()) has held: GenerateByteCode()
RunGenerateByteCode ==
  /\ call = "ReadModule" /\ parse_status.kind_ = PARSE_SUCCESS
  /\ GenerateByteCode

\* EvaluateByteCode() of Run, on the evaluator that has not run yet
RunEvaluateByteCode ==
  /\ call = "GenerateByteCode"
  /\ EvaluateByteCode

\* int64_t Compiler::getOnlyEvalResult() const
getOnlyEvalResult ==
  /\ call = "EvaluateByteCode" /\ pc = RETURNED
  /\ IF Len(eval_stack_) = 1
     THEN pc' = RETURNED /\ result' = <<eval_stack_[Len(eval_stack_)]>>
     ELSE pc' = ABORTED /\ result' = result
  /\ call' = "getOnlyEvalResult"
  /\ UNCHANGED <<input, tokens_, lex_status, module_ptr_, parse_status, byte_code_,
                 constants_, symbols_, lowered, eval_stack_, eval_consts_, symbol_table_,
                 ip, func_type, call_args>>

NextRun ==
  \/ ReadModuleCall
  \/ RunGenerateByteCode
  \/ RunEvaluateByteCode
  \/ getOnlyEvalResult

SpecRun == InitRun /\ [][NextRun]_vars

\* the number of statements of a module that are no assignment
ExprStatements(module) ==
  Cardinality({i \in 1..Len(module.nodes) : module.nodes[i].inner.kind # NODE_ASSIGN})

\* C23: after the bytecode of a module that was parsed and lowered is interpreted
\* on an evaluator that has not run, the evaluation stack holds one value for
\* every expression statement and none for an assignment statement; the check
\* of getOnlyEvalResult passes exactly for the modules with one expression
\* statement.
C23_OneValuePerExpression ==
  /\ (call = "EvaluateByteCode") =>
        (pc = RETURNED /\ Len(eval_stack_) = ExprStatements(module_ptr_))
  /\ (call = "getOnlyEvalResult") =>
        (pc = RETURNED <=> ExprStatements(module_ptr_) = 1)

(***************************************************************************)
(* The pipeline claims, over Spec                                          *)
(***************************************************************************)
\* C1: for every statement that is a well-formed nested add/sub expression over
\* integer literals, the run through lex, parse, emit and Interpret on a fresh
\* evaluator ends with exactly one value on the evaluation stack, the integer
\* value of the expression; that value is what ResetAndCompile returns.
C1_AddSubValue ==
  (call = "ResetAndCompile") =>
     \A p \in AddSubStmts :
        p.src = input =>
          /\ pc = RETURNED
          /\ eval_stack_ = <<p.val>>
          /\ result = <<p.val>>

\* C2: for a sequence of def statements followed by an expression statement that
\* reads an identifier v, the read yields the value of the most recent def of v;
\* ResetAndCompile of def x 2; (add x 5); returns 7.
C2_ReadYieldsLastDef ==
  (call = "ResetAndCompile") =>
     \A p \in DefPrograms :
        p.src = input => (pc = RETURNED /\ result = <<p.val>>)

\* the well-formed programs among the texts given to ResetAndCompile
WellFormedSrc == {p.src : p \in AddSubStmts \cup DefPrograms}

\* what ResetAndCompile(s) leaves behind and returns on a fresh instance
FreshCompileResults(s) ==
  {o \in ResetAndCompileOutcomes(s, Emitter(<<>>, <<>>, EmptyMap),
                                 [eval_stack_ |-> <<>>, constants_ |-> <<>>,
                                  symbol_table_ |-> EmptyMap]) : o.pc = RETURNED}

====
